---- MODULE Spec2Model ----
(***************************************************************************)
(* Model of the K65 Plus device backends of OpenLinkHub (package k65plus,  *)
(* the wired variant, and package k65plusW, the wireless variant), and of  *)
(* the standalone watercolor / colorshift effect modules.                  *)
(*                                                                         *)
(* Two families of specifications share the variables of this module:      *)
(*   SpecCodec  the frame codec: writeColor and transfer as functions of   *)
(*              their inputs, one call per behaviour;                      *)
(*   Spec       the wired device's tasks (API caller, animation tick       *)
(*              loops, keep-alive, telemetry, dial listener) interleaved   *)
(*              over the shared transport.                                 *)
(***************************************************************************)
EXTENDS Integers, Sequences, FiniteSets, TLC

(***************************************************************************)
(* Program constants (package-level vars of both variants).                *)
(***************************************************************************)
bufferSize == 64
bufferSizeWrite == bufferSize + 1
headerSize == 2
headerWriteSize == 4
maxBufferSizePerRequest == 61

Variants == {"wired", "wireless"}

cmdWriteColor(v) == IF v = "wired" THEN <<6, 0>> ELSE <<6, 1>>
dataTypeSubColor(v) == IF v = "wired" THEN <<7, 0>> ELSE <<7, 1>>
cmdBrightness == <<1, 2, 0>>
cmdSoftwareMode == <<1, 3, 0, 2>>
cmdHardwareMode == <<1, 3, 0, 1>>
cmdKeepAlive == <<18>>
cmdKeyboard == 9
\* bufferW[1]: 0x08 on the wired variant, the command byte on the wireless one
CommandByte(v) == IF v = "wired" THEN 8 ELSE cmdKeyboard

\* The values dataTypeSetColor takes: fixed on the wired variant, assigned by
\* setDeviceColor / Stop before each writeColor on the wireless one.
DataTypeTags(v) ==
  IF v = "wired" THEN {<<18, 0>>}
  ELSE {<<126, 32, 1>>, <<34, 0, 3, 4>>, <<126, 160, 2, 4, 1>>}

(***************************************************************************)
(* Bounds of the model.                                                    *)
(***************************************************************************)
\* longest colour payload handed to writeColor (more than two chunks)
MaxPayloadLen == 125
\* longest payload handed directly to transfer (beyond the report's room)
MaxTransferLen == 64

VARIABLES
  variant,           \* which package the call runs in
  op,                \* codec: the function under call, "writeColor" or "transfer"
  payload,           \* codec: the bytes as handed to the call
  data,              \* codec: the caller's slice (writeColor aliases and edits it)
  endpoint,          \* codec: transfer's endpoint argument (direct calls)
  dataTypeSetColor,  \* package var dataTypeSetColor
  wcPc,              \* codec: position of the call
  chunks,            \* codec: writeColor's chunks
  ci,                \* codec: index of the next chunk of the range loop
  wire               \* codec: reports written to the device, in order

codecVars == <<variant, op, payload, data, endpoint, dataTypeSetColor,
               wcPc, chunks, ci, wire>>

VARIABLES
  crashed,           \* the process has died: an unrecovered panic, or logger Fatal
  mutex,             \* package var mutex: the task holding it, or NoTask
  pc,                \* each task's position
  k,                 \* each task's chunk index inside writeColor (1-based)
  xph,               \* each task's position inside transfer: "w" before the
                     \* device Write, "r" between the Write and the Read
  activeRgb,         \* d.activeRgb: 0 (nil) or the session made by that loop
  sendTo,            \* the Exit channel the API caller is sending on
  RGBProfile,        \* d.DeviceProfile.RGBProfile
  call,              \* the API method the caller is in
  arg,               \* its argument
  calls,             \* API calls made so far
  nextLoop,          \* tick loops spawned so far, plus one
  buffLen,           \* each tick loop's len(buff) at its last writeColor(buff), or -1
  CpuTemp,           \* d.CpuTemp
  ControlDial,       \* d.DeviceProfile.ControlDial
  BrightnessLevel,   \* d.DeviceProfile.BrightnessLevel
  brightness,        \* controlDialListener's local brightness
  pv,                \* controlDialListener's local pv
  dialEvents         \* dial reports read so far

devVars == <<crashed, mutex, pc, k, xph, activeRgb, sendTo, RGBProfile, call, arg,
             calls, nextLoop, buffLen, CpuTemp, ControlDial, BrightnessLevel,
             brightness, pv, dialEvents>>

VARIABLES
  ioPc,              \* transfer: each caller's position inside the call
  ioCalls,           \* transfer: calls each caller has made
  ioWrites,          \* transfer: d.dev.Write attempts of the caller's last call
  ioReads,           \* transfer: d.dev.Read attempts of the caller's last call
  ioResult           \* transfer: what the caller's last call returned

ioVars == <<ioPc, ioCalls, ioWrites, ioReads, ioResult>>

VARIABLES
  initError,         \* why Init failed: "none", "open", "strings", "transfer", "enumerate"
  apiFrames,         \* colour frames the API caller's current call has written
  cmdLog             \* what has been written to the device so far: the label
                     \* of the first transfer, and whether cmdSoftwareMode
                     \* and cmdActivateLed have been written

apiVars == <<initError, apiFrames, cmdLog>>

VARIABLES
  fx,                \* phase counters: the effect whose counters these are
  Smoothness,        \* phase counters: r.Smoothness / smoothness
  counter,           \* phase counters: counterColorshift, counterColorwarp, or i
  reverse,           \* phase counters: reverse, colorwarpGeneratedReverse, or
                     \* being in the reverse loop
  ticks,             \* phase counters: ticks made since the session started
  toggles,           \* phase counters: times the reverse flag has changed, or
                     \* times the counter has been reset
  passed             \* phase counters: the counter the last tick handed to the
                     \* render function, or -1

phaseVars == <<fx, Smoothness, counter, reverse, ticks, toggles, passed>>

VARIABLES
  sDev,              \* sessions: the Device fields and package variables the
                     \* goroutines share (activeRgb and its two colours,
                     \* RGBProfile, the telemetry and keep-alive goroutines)
  sLoops,            \* sessions: each tick loop's position and local variables
  sCallers           \* sessions: each API caller's position inside its call

sessVars == <<sDev, sLoops, sCallers>>

VARIABLES
  tagShared,         \* wireless tag: the package variable dataTypeSetColor and
                     \* d.DeviceProfile.RGBProfile, shared by every caller
  tagCallers         \* wireless tag: each caller's position, the tag its call
                     \* assigned and the tag of the frame it wrote

tagVars == <<tagShared, tagCallers>>

VARIABLES
  instShared,        \* instances: the package variables timer, timerKeepAlive,
                     \* authRefreshChan, keepAliveChan (named by the instance
                     \* whose Init made the value) and the tickers stopped
  instTasks,         \* instances: each instance's telemetry and keep-alive
                     \* goroutine: its position and the ticker and channel its
                     \* select is waiting on
  instStop           \* instances: each instance's caller of Stop: its position
                     \* and the channel its pending send is on

instVars == <<instShared, instTasks, instStop>>

VARIABLES
  kbDev,             \* keyboard profiles: d.DeviceProfile.Profile, .Profiles and
                     \* the keys of .Keyboards
  kbLast             \* keyboard profiles: calls made, the last call and what
                     \* it returned

kbVars == <<kbDev, kbLast>>

VARIABLES
  fxInit,            \* effect module: the package, and Init's position and i
  fxStop,            \* effect module: the caller of Stop, and the WriteColor
                     \* calls counted when Stop returned
  fxWrites           \* effect module: comm.WriteColor calls made by Init

fxVars == <<fxInit, fxStop, fxWrites>>

restVars == <<tagVars, instVars, kbVars, fxVars>>

\* what the actions of one part of the model leave alone
notCodecVars == <<devVars, ioVars, apiVars, phaseVars, sessVars, restVars>>
notDevVars == <<codecVars, ioVars, phaseVars, sessVars, restVars>>

vars == <<codecVars, devVars, ioVars, apiVars, phaseVars, sessVars, restVars>>

(***************************************************************************)
(* Byte helpers.                                                           *)
(***************************************************************************)
Zeros(n) == [i \in 1..n |-> 0]

\* binary.LittleEndian.PutUint16(b, uint16(n))
PutUint16(n) == <<(n % 65536) % 256, (n % 65536) \div 256>>

\* binary.LittleEndian.Uint16
Uint16(b) == b[1] + 256 * b[2]

\* a payload of the given length: all zero (seed 0, a reset frame) or a
\* pattern of non-zero channel values
MkPayload(len, seed) ==
  [i \in 1..len |-> IF seed = 0 THEN 0 ELSE ((seed + 7 * i) % 255) + 1]

Seeds == {0, 1, 100}

(***************************************************************************)
(* common.ProcessMultiChunkPacket: consecutive pieces of at most max bytes.*)
(***************************************************************************)
RECURSIVE ProcessMultiChunkPacket(_, _)
ProcessMultiChunkPacket(b, max) ==
  IF Len(b) = 0 THEN <<>>
  ELSE IF Len(b) <= max THEN <<b>>
  ELSE <<SubSeq(b, 1, max)>> \o ProcessMultiChunkPacket(SubSeq(b, max + 1, Len(b)), max)

(***************************************************************************)
(* writeColor: the edit of the caller's slice and the framed buffer.       *)
(***************************************************************************)
\* wired: buf[3] = 0; buf[4] = 0; buf[5] = 0 panics on a slice shorter than 6
WriteColorPanics(v, d) == v = "wired" /\ Len(d) < 6

\* wired: buf := data; buf[3], buf[4], buf[5] = 0 (0-based); wireless: untouched
WriteColorBuf(v, d) ==
  IF v = "wired"
  THEN [i \in 1..Len(d) |-> IF i \in {4, 5, 6} THEN 0 ELSE d[i]]
  ELSE d

\* the value of the 16-bit length header
WriteColorLength(v, buf) == IF v = "wired" THEN Len(buf) + 2 ELSE Len(buf)

\* buffer := [len16][0 0][dataTypeSetColor][buf]
WriteColorBuffer(v, tag, buf) ==
  PutUint16(WriteColorLength(v, buf)) \o Zeros(headerWriteSize - 2) \o tag \o buf

\* the endpoint of the i-th chunk (1-based): cmdWriteColor first, then dataTypeSubColor
ChunkEndpointAlwaysFirst(v, i) == cmdWriteColor(v)
ChunkEndpoint(v, i) == IF i = 1 THEN cmdWriteColor(v) ELSE dataTypeSubColor(v)

(***************************************************************************)
(* transfer: the write buffer.                                             *)
(***************************************************************************)
\* the slice expressions bufferW[2:2+len(endpoint)] and
\* bufferW[2+len(endpoint):2+len(endpoint)+len(buffer)] panic past the
\* buffer's 65 bytes
TransferPanics(ep, b) ==
  \/ headerSize + Len(ep) > bufferSizeWrite
  \/ Len(b) > 0 /\ headerSize + Len(ep) + Len(b) > bufferSizeWrite

\* bufferW: [0][command][endpoint][buffer][zeros]
TransferReport(v, ep, b) ==
  [i \in 1..bufferSizeWrite |->
     IF i = 2 THEN CommandByte(v)
     ELSE IF i > headerSize /\ i <= headerSize + Len(ep) THEN ep[i - headerSize]
     ELSE IF i > headerSize + Len(ep) /\ i <= headerSize + Len(ep) + Len(b)
          THEN b[i - headerSize - Len(ep)]
     ELSE 0]

(***************************************************************************)
(* The wired device: tasks.                                                *)
(***************************************************************************)
\* number of LED channels: 123 in Init, here the smallest frames of two chunks
LEDChannels == 21
\* length of the "keyboard" frame (371 for 123 channels)
colorPacketLength == 3 * LEDChannels + 2

\* API calls made after Init (Stop not counted)
MaxCalls == 1
\* dial reports the listener reads
MaxDialEvents == 1

LoopIds == 1..(MaxCalls + 1)

Api == <<"api", 0>>
Ka == <<"ka", 0>>
Tm == <<"tm", 0>>
Dial == <<"dial", 0>>
Loop(i) == <<"loop", i>>
NoTask == <<"none", 0>>
Loops == {Loop(i) : i \in LoopIds}
Tasks == {Api, Ka, Tm, Dial} \cup Loops

\* effect names: "ghost" stands for a name rgb.GetRgbProfile does not resolve
EffectNames == {"keyboard", "static", "rainbow", "ghost"}

\* rgb.GetRgbProfile(name) != nil
Resolves(name) == name \in {"keyboard", "static", "rainbow"}

\* the tick loop's switch d.DeviceProfile.RGBProfile has a case for the name
\* ("rainbow" stands for the animated effects; "keyboard" has none)
HasCase(name) == name \in {"static", "rainbow"}

\* cached temperatures the telemetry task samples
Temps == {40, 70}

\* the reading of a sample that failed: the source returns a float and no error
NoReading == 0

\* temperatures.GetCpuTemperature(): the values one call can return
GetCpuTemperature(ok) == IF ok THEN Temps ELSE {NoReading}

\* number of chunks writeColor makes of a payload of n bytes
NumChunks(n) ==
  Len(ProcessMultiChunkPacket(WriteColorBuffer("wired", <<18, 0>>, Zeros(n)),
                              maxBufferSizePerRequest))

\* labels at which a task is inside writeColor
WriteColorLabels == {"reset", "once", "frame"}
\* labels at which a task is inside a single transfer
TransferLabels ==
  {"init_sw", "init_leds", "init_fw", "init_bright", "stop_hw", "ping", "bright"}

\* the number of transfers the task makes at its label
Transfers(t) ==
  IF pc[t] \notin WriteColorLabels THEN 1
  ELSE IF t = Api /\ pc[t] = "once" /\ RGBProfile = "keyboard"
       THEN NumChunks(colorPacketLength)
  ELSE NumChunks(3 * LEDChannels)

\* where setDeviceColor returns to
AfterSetDeviceColor == IF call = "Init" THEN "init_dial" ELSE "idle"

\* the label after the last transfer of the current one
AfterTransfer(t) ==
  CASE pc[t] = "init_sw" -> "init_leds"
    [] pc[t] = "init_leds" -> "init_fw"
    [] pc[t] = "init_fw" -> "init_tasks"
    [] pc[t] = "init_bright" -> "idle"
    [] pc[t] = "reset" -> "branch"
    [] pc[t] = "once" -> AfterSetDeviceColor
    [] pc[t] = "stop_hw" -> "stop_close"
    [] pc[t] = "ping" -> "wait"
    [] pc[t] = "bright" -> "read"
    [] pc[t] = "frame" -> "sleep"

\* mutex.Lock() returns
LockFree == TRUE
Lockable == mutex = NoTask

\* tasks between their device Write and their device Read
InFlight == {t \in Tasks : xph[t] = "r"}

\* the state of the device variables before Init is called
DevInit ==
  /\ crashed = FALSE
  /\ mutex = NoTask
  /\ pc = [t \in Tasks |->
             IF t = Api THEN "init_open" ELSE "none"]
  /\ k = [t \in Tasks |-> 1]
  /\ xph = [t \in Tasks |-> "w"]
  /\ activeRgb = 0
  /\ sendTo = 0
  /\ RGBProfile \in EffectNames
  /\ call = "Init"
  /\ arg = "none"
  /\ calls = 0
  /\ nextLoop = 1
  /\ buffLen = [l \in LoopIds |-> -1]
  /\ CpuTemp = 40
  /\ ControlDial \in {1, 2}
  /\ BrightnessLevel = 1000
  /\ brightness = 0
  /\ pv = FALSE
  /\ dialEvents = 0

\* the device variables while the codec specification runs
DevIdle ==
  /\ crashed = FALSE
  /\ mutex = NoTask
  /\ pc = [t \in Tasks |-> "none"]
  /\ k = [t \in Tasks |-> 1]
  /\ xph = [t \in Tasks |-> "w"]
  /\ activeRgb = 0
  /\ sendTo = 0
  /\ RGBProfile = "keyboard"
  /\ call = "none"
  /\ arg = "none"
  /\ calls = 0
  /\ nextLoop = 1
  /\ buffLen = [l \in LoopIds |-> -1]
  /\ CpuTemp = 40
  /\ ControlDial = 1
  /\ BrightnessLevel = 1000
  /\ brightness = 0
  /\ pv = FALSE
  /\ dialEvents = 0

\* no phase counter is being followed
PhaseIdle ==
  /\ fx = "none"
  /\ Smoothness = 0
  /\ counter = 0
  /\ reverse = FALSE
  /\ ticks = 0
  /\ toggles = 0
  /\ passed = -1

\* restart calls made in the session specification
MaxSessCalls == 2
\* calls of Stop made in the session specification
MaxStops == 2

SessLoopIds == 1..(MaxSessCalls + 1)
Callers == {1, 2}

\* a tick loop's goroutine before it is started: counters 0, flags false;
\* last is the effect of its last tick, seen the colours of its last
\* colorwarp tick when that was its last tick
FreshLoop ==
  [pc |-> "none", counterColorwarp |-> 0, colorwarpGeneratedReverse |-> FALSE,
   last |-> "none", seen |-> <<0, 0>>]

\* a caller outside every call
IdleCaller == [pc |-> "idle", call |-> "none", to |-> 0]

\* no session is being followed
SessIdle ==
  /\ sDev = [activeRgb |-> 0, RGBProfile |-> "none", calls |-> 0, stops |-> 0,
             nextLoop |-> 1, crashed |-> FALSE, tm |-> "none", ka |-> "none",
             RGBStartColor |-> 0, RGBEndColor |-> 0]
  /\ sLoops = [l \in SessLoopIds |-> FreshLoop]
  /\ sCallers = [c \in Callers |-> IdleCaller]

\* the two goroutines that call the API concurrently
TagCallers == {1, 2}

\* a caller outside the wireless calls
TagIdleCaller == [pc |-> "idle", call |-> "none", selected |-> <<>>, written |-> <<>>]

\* no wireless call is being followed
TagIdle ==
  /\ tagShared = [dataTypeSetColor |-> <<>>, RGBProfile |-> "none",
                  calls |-> 0, stops |-> 0]
  /\ tagCallers = [c \in TagCallers |-> TagIdleCaller]

\* the Device instances of one process
Instances == {1, 2}

\* the two ticker goroutines of an instance
TaskKinds == {"tm", "ka"}

\* no instance has been initialised
InstIdle ==
  /\ instShared = [timer |-> [kd \in TaskKinds |-> 0],
                   chan |-> [kd \in TaskKinds |-> 0],
                   stopped |-> {}]
  /\ instTasks = [i \in Instances |->
                   [kd \in TaskKinds |-> [pc |-> "none", timer |-> 0, chan |-> 0]]]
  /\ instStop = [i \in Instances |-> [pc |-> "none", chan |-> 0]]

\* no keyboard-profile call is being followed
KbIdle ==
  /\ kbDev = [Profile |-> "none", Profiles |-> <<>>, Keyboards |-> {}]
  /\ kbLast = [calls |-> 0, call |-> "none", ret |-> -1]

\* no effect module is being followed
FxIdle ==
  /\ fxInit = [mod |-> "none", pc |-> "none", i |-> 0]
  /\ fxStop = [pc |-> "none", writes |-> 0]
  /\ fxWrites = 0

RestIdle == TagIdle /\ InstIdle /\ KbIdle /\ FxIdle

\* Init has not failed and the caller has written no frame
ApiIdle ==
  /\ initError = "none"
  /\ apiFrames = 0
  /\ cmdLog = [first |-> "none", sw |-> FALSE, leds |-> FALSE]

\* no caller is inside the step-by-step transfer
IoIdle ==
  /\ ioPc = [t \in Tasks |-> "idle"]
  /\ ioCalls = [t \in Tasks |-> 0]
  /\ ioWrites = [t \in Tasks |-> 0]
  /\ ioReads = [t \in Tasks |-> 0]
  /\ ioResult = [t \in Tasks |-> "none"]

\* the codec variables while the device specification runs
CodecIdle ==
  /\ variant = "wired"
  /\ op = "none"
  /\ payload = <<>>
  /\ data = <<>>
  /\ endpoint = <<>>
  /\ dataTypeSetColor = <<18, 0>>
  /\ wcPc = "idle"
  /\ chunks = <<>>
  /\ ci = 1
  /\ wire = <<>>

(***************************************************************************)
(* transfer, for every task: Lock and device Write, then device Read and   *)
(* Unlock.                                                                 *)
(***************************************************************************)
TransferWrite(t) ==
  /\ ~crashed
  /\ UNCHANGED notDevVars
  /\ UNCHANGED <<initError, apiFrames>>
  /\ cmdLog' = [first |-> IF cmdLog.first = "none" THEN pc[t] ELSE cmdLog.first,
                sw |-> cmdLog.sw \/ pc[t] = "init_sw",
                leds |-> cmdLog.leds \/ pc[t] = "init_leds"]
  /\ pc[t] \in WriteColorLabels \cup TransferLabels
  /\ xph[t] = "w"
  /\ Lockable
  /\ mutex' = t
  /\ xph' = [xph EXCEPT ![t] = "r"]
  /\ UNCHANGED <<crashed, pc, k, activeRgb, sendTo, RGBProfile, call, arg, calls,
                 nextLoop, buffLen, CpuTemp, ControlDial, BrightnessLevel,
                 brightness, pv, dialEvents>>

\* how a finished transfer moves its caller on: to the next chunk, or past
\* the call; a caller's frame is written with its last chunk
TransferDone(t) ==
  /\ IF k[t] < Transfers(t)
     THEN /\ k' = [k EXCEPT ![t] = k[t] + 1]
          /\ pc' = pc
          /\ UNCHANGED apiFrames
     ELSE /\ k' = [k EXCEPT ![t] = 1]
          /\ pc' = [pc EXCEPT ![t] = AfterTransfer(t)]
          /\ apiFrames' = IF t = Api /\ pc[t] \in WriteColorLabels
                          THEN apiFrames + 1 ELSE apiFrames

TransferRead(t) ==
  /\ ~crashed
  /\ UNCHANGED notDevVars
  /\ pc[t] \in WriteColorLabels \cup TransferLabels
  /\ xph[t] = "r"
  /\ mutex' = NoTask
  /\ xph' = [xph EXCEPT ![t] = "w"]
  /\ TransferDone(t)
  /\ UNCHANGED <<crashed, activeRgb, sendTo, RGBProfile, call, arg, calls,
                 nextLoop, buffLen, CpuTemp, ControlDial, BrightnessLevel,
                 brightness, pv, dialEvents, initError, cmdLog>>

\* the labels whose caller ends a transfer error with logger ... Fatal
\* (setSoftwareMode, initLeds, getDeviceFirmware, setHardwareMode)
FatalLabels == {"init_sw", "init_leds", "init_fw", "stop_hw"}

\* what a transfer that returned an error does to its caller: Fatal ends the
\* process; every other caller logs and goes on as after a transfer
TransferFailed(t) ==
  IF pc[t] \in FatalLabels
  THEN /\ crashed' = TRUE
       /\ initError' = IF call = "Init" THEN "transfer" ELSE initError
       /\ UNCHANGED <<pc, k, apiFrames>>
  ELSE /\ TransferDone(t)
       /\ UNCHANGED <<crashed, initError>>

\* transfer: Lock, d.dev.Write fails, return nil, err (Unlock)
TransferWriteError(t) ==
  /\ ~crashed
  /\ UNCHANGED notDevVars
  /\ pc[t] \in WriteColorLabels \cup TransferLabels
  /\ xph[t] = "w"
  /\ Lockable
  /\ TransferFailed(t)
  /\ UNCHANGED cmdLog
  /\ UNCHANGED <<mutex, xph, activeRgb, sendTo, RGBProfile, call, arg, calls,
                 nextLoop, buffLen, CpuTemp, ControlDial, BrightnessLevel,
                 brightness, pv, dialEvents>>

\* transfer: d.dev.Read fails, return nil, err (Unlock)
TransferReadError(t) ==
  /\ ~crashed
  /\ UNCHANGED notDevVars
  /\ pc[t] \in WriteColorLabels \cup TransferLabels
  /\ xph[t] = "r"
  /\ mutex' = NoTask
  /\ xph' = [xph EXCEPT ![t] = "w"]
  /\ TransferFailed(t)
  /\ UNCHANGED cmdLog
  /\ UNCHANGED <<activeRgb, sendTo, RGBProfile, call, arg, calls,
                 nextLoop, buffLen, CpuTemp, ControlDial, BrightnessLevel,
                 brightness, pv, dialEvents>>

(***************************************************************************)
(* SpecCodec: one call of writeColor, or one direct call of transfer.      *)
(***************************************************************************)
Endpoints(v) ==
  {cmdWriteColor(v), dataTypeSubColor(v), cmdBrightness, cmdSoftwareMode, cmdKeepAlive}

\* start colours and brightness values (in percent) of the "static" profile
StartColors == {<<255, 0, 0>>, <<10, 200, 31>>}
Brightnesses == {0, 50, 100}

\* rgb.ModifyBrightness: every channel scaled by the brightness, rounded to
\* the nearest integer, clamped to [0, 255]
ModifyBrightness(c, b) ==
  [i \in 1..3 |-> LET v == (2 * c[i] * b + 100) \div 200
                  IN IF v > 255 THEN 255 ELSE v]

\* rgb.SetColor: the colour triples of channels 0..n-1 laid out in order
SetColor(m) == [i \in 1..(3 * Len(m)) |-> m[((i - 1) \div 3) + 1][((i - 1) % 3) + 1]]

\* setDeviceColor, "static": reset[i] = profileColor for every channel
StaticColors(n, col) == [i \in 1..n |-> col]

\* the buffer the "static" path hands to writeColor
StaticFrame(n, c, b) == SetColor(StaticColors(n, ModifyBrightness(c, b)))

\* channel counts of the static frames: two channels, and the device's
StaticChannelCounts == {2, LEDChannels}

CodecInit ==
  /\ variant \in Variants
  /\ op \in {"writeColor", "transfer"}
  /\ \/ \E len \in 0..MaxPayloadLen, seed \in Seeds :
          /\ op = "transfer" => len <= MaxTransferLen
          /\ payload = MkPayload(len, seed)
     \/ \E n \in StaticChannelCounts, c \in StartColors, b \in Brightnesses :
          /\ op = "writeColor"
          /\ payload = StaticFrame(n, c, b)
  /\ data = payload
  /\ endpoint \in Endpoints(variant)
  /\ op = "writeColor" => endpoint = cmdWriteColor(variant)
  /\ dataTypeSetColor \in DataTypeTags(variant)
  /\ wcPc = "call"
  /\ chunks = <<>>
  /\ ci = 1
  /\ wire = <<>>

\* writeColor up to the range loop
WriteColorCall ==
  /\ op = "writeColor" /\ wcPc = "call"
  /\ IF WriteColorPanics(variant, data)
     THEN /\ wcPc' = "panic"
          /\ UNCHANGED <<data, chunks>>
     ELSE /\ data' = WriteColorBuf(variant, data)
          /\ chunks' = ProcessMultiChunkPacket(
                         WriteColorBuffer(variant, dataTypeSetColor, data'),
                         maxBufferSizePerRequest)
          /\ wcPc' = IF Len(chunks') = 0 THEN "done" ELSE "loop"
  /\ UNCHANGED <<variant, op, payload, endpoint, dataTypeSetColor, ci, wire>>
  /\ UNCHANGED notCodecVars

\* one iteration of the range loop: transfer of chunk ci
WriteColorChunk ==
  /\ op = "writeColor" /\ wcPc = "loop"
  /\ LET ep == ChunkEndpoint(variant, ci) IN
       IF TransferPanics(ep, chunks[ci])
       THEN /\ wcPc' = "panic"
            /\ UNCHANGED <<ci, wire>>
       ELSE /\ wire' = Append(wire, [ep |-> ep, n |-> Len(chunks[ci]),
                                     report |-> TransferReport(variant, ep, chunks[ci])])
            /\ ci' = ci + 1
            /\ wcPc' = IF ci = Len(chunks) THEN "done" ELSE "loop"
  /\ UNCHANGED <<variant, op, payload, data, endpoint, dataTypeSetColor, chunks>>
  /\ UNCHANGED notCodecVars

\* a direct call transfer(endpoint, payload)
TransferCall ==
  /\ op = "transfer" /\ wcPc = "call"
  /\ IF TransferPanics(endpoint, payload)
     THEN /\ wcPc' = "panic"
          /\ UNCHANGED wire
     ELSE /\ wire' = Append(wire, [ep |-> endpoint, n |-> Len(payload),
                                   report |-> TransferReport(variant, endpoint, payload)])
          /\ wcPc' = "done"
  /\ UNCHANGED <<variant, op, payload, data, endpoint, dataTypeSetColor, chunks, ci>>
  /\ UNCHANGED notCodecVars

CodecNext == WriteColorCall \/ WriteColorChunk \/ TransferCall

\* one codec call on a device that is otherwise idle
InitCodec == CodecInit /\ DevIdle /\ IoIdle /\ ApiIdle /\ PhaseIdle /\ SessIdle /\ RestIdle

SpecCodec == InitCodec /\ [][CodecNext]_vars

(***************************************************************************)
(* Frame codec: what the device receives.                                  *)
(***************************************************************************)
\* the payload room of a report after the two header bytes and the endpoint
ReportRoom(ep) == bufferSizeWrite - headerSize - Len(ep)

\* the first n bytes a report carries after its endpoint
ReportPayload(w) ==
  SubSeq(w.report, headerSize + Len(w.ep) + 1, headerSize + Len(w.ep) + w.n)

\* the payload bytes of the reports i..Len(wire), concatenated in order
RECURSIVE WireBytesFrom(_)
WireBytesFrom(i) ==
  IF i > Len(wire) THEN <<>> ELSE ReportPayload(wire[i]) \o WireBytesFrom(i + 1)

\* ... with the length header and the data-type tag stripped
Recovered ==
  LET all == WireBytesFrom(1)
      skip == headerWriteSize + Len(dataTypeSetColor)
  IN IF Len(all) <= skip THEN <<>> ELSE SubSeq(all, skip + 1, Len(all))

\* C5 (as claimed): every completed writeColor call put on the wire chunks
\* whose payload bytes, concatenated in order and stripped of the length
\* header and data-type tag, are exactly the payload that was handed in.
C5_RoundTripExact ==
  (op = "writeColor" /\ wcPc = "done") => Recovered = payload

\* C6: the reports of one colour frame carry the framed buffer in order, at most
\* 61 bytes each; the first is sent with cmdWriteColor and every later one with
\* dataTypeSubColor.
C6_ChunkOrderAndOpcodes ==
  op = "writeColor" =>
    \A i \in 1..Len(wire) :
      /\ wire[i].n <= maxBufferSizePerRequest
      /\ wire[i].ep = (IF i = 1 THEN cmdWriteColor(variant) ELSE dataTypeSubColor(variant))
      /\ LET buffer == WriteColorBuffer(variant, dataTypeSetColor, data)
             first == maxBufferSizePerRequest * (i - 1) + 1
             last == IF maxBufferSizePerRequest * i < Len(buffer)
                     THEN maxBufferSizePerRequest * i ELSE Len(buffer)
         IN ReportPayload(wire[i]) = SubSeq(buffer, first, last)

\* C6 witness: a frame of three chunks has been sent completely
C6_Witness ==
  /\ op = "writeColor" /\ wcPc = "done" /\ Len(wire) = 3
  /\ wire[3].ep = dataTypeSubColor(variant)

\* C9 (as claimed): writeColor with a zero-length payload does not fail and
\* transfers exactly one chunk, with cmdWriteColor, holding only the length
\* header and the data-type tag.
C9_ZeroLengthPayload ==
  (op = "writeColor" /\ Len(payload) = 0 /\ wcPc \in {"done", "panic"}) =>
    /\ wcPc = "done"
    /\ Len(wire) = 1
    /\ wire[1].ep = cmdWriteColor(variant)
    /\ wire[1].n = headerWriteSize + Len(dataTypeSetColor)

\* C10 (as claimed): transfer never fails because of the payload's length and
\* writes one 65-byte report: the endpoint bytes, then the payload, zero-padded
\* when shorter than the room left and truncated when longer.
C10_TransferReport ==
  (op = "transfer" /\ wcPc \in {"done", "panic"}) =>
    /\ wcPc = "done"
    /\ Len(wire) = 1
    /\ Len(wire[1].report) = bufferSizeWrite
    /\ \A j \in 1..Len(endpoint) : wire[1].report[headerSize + j] = endpoint[j]
    /\ \A j \in 1..ReportRoom(endpoint) :
         wire[1].report[headerSize + Len(endpoint) + j] =
           (IF j <= Len(payload) THEN payload[j] ELSE 0)

(***************************************************************************)
(* Init (after the device is open) and setDeviceColor.                     *)
(***************************************************************************)
\* after hid.OpenPath fails: return nil
OpenErrorContinues == "init_strings"
OpenErrorNext == "init_failed"

\* hid.OpenPath(key)
InitOpen(ok) ==
  /\ ~crashed
  /\ UNCHANGED notDevVars
  /\ pc[Api] = "init_open"
  /\ IF ok
     THEN /\ pc' = [pc EXCEPT ![Api] = "init_strings"]
          /\ UNCHANGED initError
     ELSE /\ pc' = [pc EXCEPT ![Api] = OpenErrorNext]
          /\ initError' = "open"
  /\ UNCHANGED <<crashed, mutex, k, xph, activeRgb, sendTo, RGBProfile, call, arg,
                 calls, nextLoop, buffLen, CpuTemp, ControlDial, BrightnessLevel,
                 brightness, pv, dialEvents, apiFrames, cmdLog>>

\* the first step of Init that transfers a command: d.setSoftwareMode()
LedsFirst == "init_leds"
FirstCommand == "init_sw"

\* getManufacturer, getSerial: an error ends in logger ... Fatal
InitStrings(ok) ==
  /\ ~crashed
  /\ UNCHANGED notDevVars
  /\ pc[Api] = "init_strings"
  /\ IF ok
     THEN /\ pc' = [pc EXCEPT ![Api] = FirstCommand]
          /\ UNCHANGED <<crashed, initError>>
     ELSE /\ crashed' = TRUE
          /\ initError' = "strings"
          /\ UNCHANGED pc
  /\ UNCHANGED <<mutex, k, xph, activeRgb, sendTo, RGBProfile, call, arg,
                 calls, nextLoop, buffLen, CpuTemp, ControlDial, BrightnessLevel,
                 brightness, pv, dialEvents, apiFrames, cmdLog>>

\* loadDeviceProfiles, saveDeviceProfile, setAutoRefresh, setKeepAlive
InitTasks ==
  /\ ~crashed
  /\ UNCHANGED notDevVars
  /\ UNCHANGED apiVars
  /\ pc[Api] = "init_tasks"
  /\ pc' = [pc EXCEPT ![Api] = "reset", ![Tm] = "wait", ![Ka] = "wait"]
  /\ UNCHANGED <<crashed, mutex, k, xph, activeRgb, sendTo, RGBProfile, call, arg,
                 calls, nextLoop, buffLen, CpuTemp, ControlDial, BrightnessLevel,
                 brightness, pv, dialEvents>>

\* setDeviceColor after the reset frame: one more frame for "keyboard" and
\* "static", the tick loop's goroutine for every other name
SetDeviceColorBranch ==
  /\ ~crashed
  /\ UNCHANGED notDevVars
  /\ UNCHANGED apiVars
  /\ pc[Api] = "branch"
  /\ IF RGBProfile \in {"keyboard", "static"}
     THEN /\ pc' = [pc EXCEPT ![Api] = "once"]
          /\ UNCHANGED nextLoop
     ELSE /\ pc' = [pc EXCEPT ![Api] = AfterSetDeviceColor,
                              ![Loop(nextLoop)] = "spawned"]
          /\ nextLoop' = nextLoop + 1
  /\ UNCHANGED <<crashed, mutex, k, xph, activeRgb, sendTo, RGBProfile, call, arg,
                 calls, buffLen, CpuTemp, ControlDial, BrightnessLevel,
                 brightness, pv, dialEvents>>

\* controlDialListener: the initial level and the go statement
InitDial ==
  /\ ~crashed
  /\ UNCHANGED notDevVars
  /\ UNCHANGED apiVars
  /\ pc[Api] = "init_dial"
  /\ pv' = FALSE
  /\ brightness' = IF BrightnessLevel = 0 THEN 1000 ELSE BrightnessLevel
  /\ pc' = [pc EXCEPT ![Api] = "init_bright", ![Dial] = "enum"]
  /\ UNCHANGED <<crashed, mutex, k, xph, activeRgb, sendTo, RGBProfile, call, arg,
                 calls, nextLoop, buffLen, CpuTemp, ControlDial, BrightnessLevel,
                 dialEvents>>

(***************************************************************************)
(* API calls.                                                              *)
(***************************************************************************)
\* if rgb.GetRgbProfile(profile) == nil { ... return 0 }
NeverRejected(p) == FALSE
Rejected(p) == ~Resolves(p)

\* UpdateRgbProfile(profile): the profile is set and saved before the
\* running session is cancelled
UpdateRgbProfile(p) ==
  /\ ~crashed
  /\ UNCHANGED notDevVars
  /\ apiFrames' = 0
  /\ UNCHANGED <<initError, cmdLog>>
  /\ pc[Api] = "idle" /\ calls < MaxCalls
  /\ calls' = calls + 1
  /\ IF Rejected(p)
     THEN UNCHANGED <<pc, RGBProfile, call, arg>>
     ELSE /\ RGBProfile' = p
          /\ call' = "UpdateRgbProfile"
          /\ arg' = p
          /\ pc' = [pc EXCEPT ![Api] = "cancel"]
  /\ UNCHANGED <<crashed, mutex, k, xph, activeRgb, sendTo, nextLoop, buffLen,
                 CpuTemp, ControlDial, BrightnessLevel, brightness, pv, dialEvents>>

\* ChangeDeviceBrightness(mode) (the Brightness field is not part of the model)
ChangeDeviceBrightness ==
  /\ ~crashed
  /\ UNCHANGED notDevVars
  /\ apiFrames' = 0
  /\ UNCHANGED <<initError, cmdLog>>
  /\ pc[Api] = "idle" /\ calls < MaxCalls
  /\ calls' = calls + 1
  /\ call' = "ChangeDeviceBrightness"
  /\ arg' = "none"
  /\ pc' = [pc EXCEPT ![Api] = "cancel"]
  /\ UNCHANGED <<crashed, mutex, k, xph, activeRgb, sendTo, RGBProfile, nextLoop,
                 buffLen, CpuTemp, ControlDial, BrightnessLevel, brightness, pv,
                 dialEvents>>

\* ChangeDeviceProfile(profileName), for a user profile whose RGBProfile is p
ChangeDeviceProfile(p) ==
  /\ ~crashed
  /\ UNCHANGED notDevVars
  /\ apiFrames' = 0
  /\ UNCHANGED <<initError, cmdLog>>
  /\ pc[Api] = "idle" /\ calls < MaxCalls
  /\ calls' = calls + 1
  /\ call' = "ChangeDeviceProfile"
  /\ arg' = p
  /\ pc' = [pc EXCEPT ![Api] = "cancel"]
  /\ UNCHANGED <<crashed, mutex, k, xph, activeRgb, sendTo, RGBProfile, nextLoop,
                 buffLen, CpuTemp, ControlDial, BrightnessLevel, brightness, pv,
                 dialEvents>>

\* where a restarting call goes once the session is cancelled
AfterCancel == IF call = "ChangeDeviceProfile" THEN "switch" ELSE "reset"

\* if d.activeRgb != nil { d.activeRgb.Exit <- true ...
CancelCheck ==
  /\ ~crashed
  /\ UNCHANGED notDevVars
  /\ UNCHANGED apiVars
  /\ pc[Api] = "cancel"
  /\ IF activeRgb # 0
     THEN /\ sendTo' = activeRgb
          /\ pc' = [pc EXCEPT ![Api] = "send"]
     ELSE /\ pc' = [pc EXCEPT ![Api] = AfterCancel]
          /\ UNCHANGED sendTo
  /\ UNCHANGED <<crashed, mutex, k, xph, activeRgb, RGBProfile, call, arg, calls,
                 nextLoop, buffLen, CpuTemp, ControlDial, BrightnessLevel,
                 brightness, pv, dialEvents>>

\* ... d.activeRgb = nil }
SetNil ==
  /\ ~crashed
  /\ UNCHANGED notDevVars
  /\ UNCHANGED apiVars
  /\ pc[Api] = "setnil"
  /\ activeRgb' = 0
  /\ pc' = [pc EXCEPT ![Api] = AfterCancel]
  /\ UNCHANGED <<crashed, mutex, k, xph, sendTo, RGBProfile, call, arg, calls,
                 nextLoop, buffLen, CpuTemp, ControlDial, BrightnessLevel,
                 brightness, pv, dialEvents>>

\* ChangeDeviceProfile: d.DeviceProfile = newProfile; saveDeviceProfile()
SwitchProfile ==
  /\ ~crashed
  /\ UNCHANGED notDevVars
  /\ UNCHANGED apiVars
  /\ pc[Api] = "switch"
  /\ RGBProfile' = arg
  /\ pc' = [pc EXCEPT ![Api] = "reset"]
  /\ UNCHANGED <<crashed, mutex, k, xph, activeRgb, sendTo, call, arg, calls,
                 nextLoop, buffLen, CpuTemp, ControlDial, BrightnessLevel,
                 brightness, pv, dialEvents>>

\* UpdateDeviceLabel: mutex.Lock() ...
LabelLock ==
  /\ ~crashed
  /\ UNCHANGED notDevVars
  /\ UNCHANGED apiVars
  /\ pc[Api] = "idle" /\ calls < MaxCalls
  /\ Lockable
  /\ mutex' = Api
  /\ calls' = calls + 1
  /\ call' = "UpdateDeviceLabel"
  /\ arg' = "none"
  /\ pc' = [pc EXCEPT ![Api] = "label"]
  /\ UNCHANGED <<crashed, k, xph, activeRgb, sendTo, RGBProfile, nextLoop, buffLen,
                 CpuTemp, ControlDial, BrightnessLevel, brightness, pv, dialEvents>>

\* ... saveDeviceProfile(); mutex.Unlock()
LabelUnlock ==
  /\ ~crashed
  /\ UNCHANGED notDevVars
  /\ UNCHANGED apiVars
  /\ pc[Api] = "label"
  /\ mutex' = NoTask
  /\ pc' = [pc EXCEPT ![Api] = "idle"]
  /\ UNCHANGED <<crashed, k, xph, activeRgb, sendTo, RGBProfile, call, arg, calls,
                 nextLoop, buffLen, CpuTemp, ControlDial, BrightnessLevel,
                 brightness, pv, dialEvents>>

(***************************************************************************)
(* Stop.                                                                   *)
(***************************************************************************)
\* Stop(): if d.activeRgb != nil { d.activeRgb.Stop() }
StopCall ==
  /\ ~crashed
  /\ UNCHANGED notDevVars
  /\ UNCHANGED apiVars
  /\ pc[Api] = "idle"
  /\ call' = "Stop"
  /\ arg' = "none"
  /\ IF activeRgb # 0
     THEN /\ sendTo' = activeRgb
          /\ pc' = [pc EXCEPT ![Api] = "stop_send"]
     ELSE /\ pc' = [pc EXCEPT ![Api] = "stop_auth"]
          /\ UNCHANGED sendTo
  /\ UNCHANGED <<crashed, mutex, k, xph, activeRgb, RGBProfile, calls, nextLoop,
                 buffLen, CpuTemp, ControlDial, BrightnessLevel, brightness, pv,
                 dialEvents>>

\* d.dev.Close()
StopClose ==
  /\ ~crashed
  /\ UNCHANGED notDevVars
  /\ UNCHANGED apiVars
  /\ pc[Api] = "stop_close"
  /\ pc' = [pc EXCEPT ![Api] = "stopped"]
  /\ UNCHANGED <<crashed, mutex, k, xph, activeRgb, sendTo, RGBProfile, call, arg,
                 calls, nextLoop, buffLen, CpuTemp, ControlDial, BrightnessLevel,
                 brightness, pv, dialEvents>>

(***************************************************************************)
(* The animation tick loop (the goroutine of setDeviceColor).              *)
(***************************************************************************)
\* the API caller is blocked sending on Exit channel c
SenderOn(c) == pc[Api] \in {"send", "stop_send"} /\ sendTo = c

\* the caller's label once its send on Exit has been received
AfterSend == IF pc[Api] = "send" THEN "setnil" ELSE "stop_auth"

\* the labels at which the loop evaluates its select on d.activeRgb.Exit
CancelPointsAnywhere == {"top", "frame"}
CancelPoints == {"top"}

\* d.activeRgb = rgb.Exit() and the random colours, inside the goroutine
LoopSetup(l) ==
  /\ ~crashed
  /\ UNCHANGED notDevVars
  /\ UNCHANGED apiVars
  /\ pc[Loop(l)] = "spawned"
  /\ activeRgb' = l
  /\ pc' = [pc EXCEPT ![Loop(l)] = "top"]
  /\ UNCHANGED <<crashed, mutex, k, xph, sendTo, RGBProfile, call, arg, calls,
                 nextLoop, buffLen, CpuTemp, ControlDial, BrightnessLevel,
                 brightness, pv, dialEvents>>

\* select { case <-d.activeRgb.Exit: return
LoopExit(l) ==
  /\ ~crashed
  /\ UNCHANGED notDevVars
  /\ UNCHANGED apiVars
  /\ pc[Loop(l)] \in CancelPoints
  /\ activeRgb # 0
  /\ SenderOn(activeRgb)
  /\ pc' = [pc EXCEPT ![Loop(l)] = "exited", ![Api] = AfterSend]
  /\ UNCHANGED <<crashed, mutex, k, xph, activeRgb, sendTo, RGBProfile, call, arg,
                 calls, nextLoop, buffLen, CpuTemp, ControlDial, BrightnessLevel,
                 brightness, pv, dialEvents>>

\* ... default: (no sender is waiting); d.activeRgb == nil is a nil dereference
LoopDefault(l) ==
  /\ ~crashed
  /\ UNCHANGED notDevVars
  /\ UNCHANGED apiVars
  /\ pc[Loop(l)] = "top"
  /\ IF activeRgb = 0
     THEN /\ crashed' = TRUE
          /\ UNCHANGED pc
     ELSE /\ ~SenderOn(activeRgb)
          /\ pc' = [pc EXCEPT ![Loop(l)] = "tick"]
          /\ UNCHANGED crashed
  /\ UNCHANGED <<mutex, k, xph, activeRgb, sendTo, RGBProfile, call, arg, calls,
                 nextLoop, buffLen, CpuTemp, ControlDial, BrightnessLevel,
                 brightness, pv, dialEvents>>

\* len(buff) after the switch: every case appends N triples, a name without
\* a case appends nothing
TickBuffLen(name) == IF HasCase(name) THEN 3 * LEDChannels ELSE 0

\* the label after the tick body when the profile does not resolve: continue
UnresolvedNext == "top"

\* the tick body: when the profile does not resolve, buff is N zero triples and
\* the loop continues; else buff is what the switch appended and
\* d.writeColor(buff) runs up to its first transfer
LoopTick(l) ==
  /\ ~crashed
  /\ UNCHANGED notDevVars
  /\ UNCHANGED apiVars
  /\ pc[Loop(l)] = "tick"
  /\ IF ~Resolves(RGBProfile)
     THEN /\ pc' = [pc EXCEPT ![Loop(l)] = UnresolvedNext]
          /\ UNCHANGED <<crashed, buffLen>>
     ELSE /\ buffLen' = [buffLen EXCEPT ![l] = TickBuffLen(RGBProfile)]
          /\ IF WriteColorPanics("wired", Zeros(buffLen'[l]))
             THEN /\ crashed' = TRUE
                  /\ UNCHANGED pc
             ELSE /\ pc' = [pc EXCEPT ![Loop(l)] = "frame"]
                  /\ UNCHANGED crashed
  /\ UNCHANGED <<mutex, k, xph, activeRgb, sendTo, RGBProfile, call, arg, calls,
                 nextLoop, CpuTemp, ControlDial, BrightnessLevel,
                 brightness, pv, dialEvents>>

\* time.Sleep(20 * time.Millisecond); hue++; wavePosition += 0.2
LoopSleep(l) ==
  /\ ~crashed
  /\ UNCHANGED notDevVars
  /\ UNCHANGED apiVars
  /\ pc[Loop(l)] = "sleep"
  /\ pc' = [pc EXCEPT ![Loop(l)] = "top"]
  /\ UNCHANGED <<crashed, mutex, k, xph, activeRgb, sendTo, RGBProfile, call, arg,
                 calls, nextLoop, buffLen, CpuTemp, ControlDial, BrightnessLevel,
                 brightness, pv, dialEvents>>

(***************************************************************************)
(* Keep-alive and telemetry tasks.                                         *)
(***************************************************************************)
\* case <-timerKeepAlive.C: d.keepAlive()
KeepAliveTick ==
  /\ ~crashed
  /\ UNCHANGED notDevVars
  /\ UNCHANGED apiVars
  /\ pc[Ka] = "wait"
  /\ pc' = [pc EXCEPT ![Ka] = "ping"]
  /\ UNCHANGED <<crashed, mutex, k, xph, activeRgb, sendTo, RGBProfile, call, arg,
                 calls, nextLoop, buffLen, CpuTemp, ControlDial, BrightnessLevel,
                 brightness, pv, dialEvents>>

\* Stop: keepAliveChan <- true, received by case <-keepAliveChan: return
KeepAliveExit ==
  /\ ~crashed
  /\ UNCHANGED notDevVars
  /\ UNCHANGED apiVars
  /\ pc[Ka] = "wait" /\ pc[Api] = "stop_ka"
  /\ pc' = [pc EXCEPT ![Ka] = "exited", ![Api] = "stop_hw"]
  /\ UNCHANGED <<crashed, mutex, k, xph, activeRgb, sendTo, RGBProfile, call, arg,
                 calls, nextLoop, buffLen, CpuTemp, ControlDial, BrightnessLevel,
                 brightness, pv, dialEvents>>

\* case <-timer.C: d.setTemperatures(), which assigns
\* d.CpuTemp = temperatures.GetCpuTemperature() (d.GpuTemp likewise)
TelemetryTick(ok) ==
  /\ ~crashed
  /\ UNCHANGED notDevVars
  /\ UNCHANGED apiVars
  /\ pc[Tm] = "wait"
  /\ \E t \in GetCpuTemperature(ok) : CpuTemp' = t
  /\ UNCHANGED <<crashed, mutex, pc, k, xph, activeRgb, sendTo, RGBProfile, call,
                 arg, calls, nextLoop, buffLen, ControlDial, BrightnessLevel,
                 brightness, pv, dialEvents>>

\* Stop: authRefreshChan <- true, received by case <-authRefreshChan: return
TelemetryExit ==
  /\ ~crashed
  /\ UNCHANGED notDevVars
  /\ UNCHANGED apiVars
  /\ pc[Tm] = "wait" /\ pc[Api] = "stop_auth"
  /\ pc' = [pc EXCEPT ![Tm] = "exited", ![Api] = "stop_ka"]
  /\ UNCHANGED <<crashed, mutex, k, xph, activeRgb, sendTo, RGBProfile, call, arg,
                 calls, nextLoop, buffLen, CpuTemp, ControlDial, BrightnessLevel,
                 brightness, pv, dialEvents>>

(***************************************************************************)
(* The dial listener.                                                      *)
(***************************************************************************)
DialReports == {"press", "inc", "dec"}

\* the brightness binding's new level (uint16 arithmetic)
DialBrightness(ev, b, newPv) ==
  IF ev = "press" THEN (IF newPv THEN 0 ELSE 1000)
  ELSE IF ev = "inc" THEN (IF b >= 1000 THEN 1000 ELSE (b + 100) % 65536)
  ELSE (IF b <= 0 THEN 0 ELSE (b - 100) % 65536)

\* hid.Enumerate opens the listener interface; an error ends in logger ... Fatal
DialEnumerate(ok) ==
  /\ ~crashed
  /\ UNCHANGED notDevVars
  /\ pc[Dial] = "enum"
  /\ IF ok
     THEN /\ pc' = [pc EXCEPT ![Dial] = "read"]
          /\ UNCHANGED <<crashed, initError>>
     ELSE /\ crashed' = TRUE
          /\ initError' = "enumerate"
          /\ UNCHANGED pc
  /\ UNCHANGED <<mutex, k, xph, activeRgb, sendTo, RGBProfile, call, arg,
                 calls, nextLoop, buffLen, CpuTemp, ControlDial, BrightnessLevel,
                 brightness, pv, dialEvents, apiFrames, cmdLog>>

\* d.listener.Read returns a report; the switch on ControlDial handles it
\* (the brightness binding ends with a transfer, then the 40 ms sleep)
DialRead(ev) ==
  /\ ~crashed
  /\ UNCHANGED notDevVars
  /\ UNCHANGED apiVars
  /\ pc[Dial] = "read" /\ dialEvents < MaxDialEvents
  /\ dialEvents' = dialEvents + 1
  /\ pv' = IF ev = "press" /\ ControlDial \in {1, 2} THEN ~pv ELSE pv
  /\ IF ControlDial = 2
     THEN /\ brightness' = DialBrightness(ev, brightness, pv')
          /\ BrightnessLevel' = brightness'
          /\ pc' = [pc EXCEPT ![Dial] = "bright"]
     ELSE /\ pc' = pc
          /\ UNCHANGED <<brightness, BrightnessLevel>>
  /\ UNCHANGED <<crashed, mutex, k, xph, activeRgb, sendTo, RGBProfile, call, arg,
                 calls, nextLoop, buffLen, CpuTemp, ControlDial>>

\* d.listener.Read fails: break
DialReadError ==
  /\ ~crashed
  /\ UNCHANGED notDevVars
  /\ UNCHANGED apiVars
  /\ pc[Dial] = "read"
  /\ pc' = [pc EXCEPT ![Dial] = "exited"]
  /\ UNCHANGED <<crashed, mutex, k, xph, activeRgb, sendTo, RGBProfile, call, arg,
                 calls, nextLoop, buffLen, CpuTemp, ControlDial, BrightnessLevel,
                 brightness, pv, dialEvents>>

(***************************************************************************)
(* Spec: the wired device.                                                 *)
(***************************************************************************)
Init == CodecIdle /\ DevInit /\ IoIdle /\ ApiIdle /\ PhaseIdle /\ SessIdle /\ RestIdle

DevNext ==
  \/ \E t \in Tasks : TransferWrite(t)
  \/ \E t \in Tasks : TransferRead(t)
  \/ \E t \in Tasks : TransferWriteError(t)
  \/ \E t \in Tasks : TransferReadError(t)
  \/ \E ok \in BOOLEAN : InitOpen(ok)
  \/ \E ok \in BOOLEAN : InitStrings(ok)
  \/ InitTasks
  \/ SetDeviceColorBranch
  \/ InitDial
  \/ \E p \in EffectNames : UpdateRgbProfile(p)
  \/ ChangeDeviceBrightness
  \/ \E p \in EffectNames : ChangeDeviceProfile(p)
  \/ CancelCheck
  \/ SetNil
  \/ SwitchProfile
  \/ LabelLock
  \/ LabelUnlock
  \/ StopCall
  \/ StopClose
  \/ \E l \in LoopIds : LoopSetup(l)
  \/ \E l \in LoopIds : LoopExit(l)
  \/ \E l \in LoopIds : LoopDefault(l)
  \/ \E l \in LoopIds : LoopTick(l)
  \/ \E l \in LoopIds : LoopSleep(l)
  \/ KeepAliveTick
  \/ KeepAliveExit
  \/ \E ok \in BOOLEAN : TelemetryTick(ok)
  \/ TelemetryExit
  \/ \E ok \in BOOLEAN : DialEnumerate(ok)
  \/ \E ev \in DialReports : DialRead(ev)
  \/ DialReadError

Next == DevNext

Spec == Init /\ [][Next]_vars

(***************************************************************************)
(* Properties of the wired device.                                         *)
(***************************************************************************)
\* tick loops whose goroutine has been started and has not returned
AliveLoops == {l \in LoopIds : pc[Loop(l)] \notin {"none", "exited"}}

\* background tasks that have been started and have not returned
Running == {t \in Tasks \ {Api} : pc[t] \notin {"none", "exited"}}

\* C1: at most one task is between the device Write and the device Read of a
\* transfer at a time, whatever the interleaving of the tick loops, the
\* keep-alive task, the dial listener and the API caller; the task that is
\* there holds the mutex.
C1_TransferMutualExclusion ==
  /\ Cardinality(InFlight) <= 1
  /\ \A t \in InFlight : mutex = t

\* C1 witness: a tick loop is inside its round trip while the keep-alive task,
\* the dial listener and an API caller's frame all wait to start theirs
C1_Witness ==
  \E l \in LoopIds :
    /\ xph[Loop(l)] = "r"
    /\ pc[Ka] = "ping" /\ xph[Ka] = "w"
    /\ pc[Dial] = "bright" /\ xph[Dial] = "w"
    /\ pc[Api] = "reset" /\ xph[Api] = "w" /\ call # "Init"

\* C2 (as claimed): at most one animation tick loop is alive at any time.
C2_AtMostOneLoopAlive == Cardinality(AliveLoops) <= 1

\* C3 (as claimed): once Stop has returned, the tick loops, the keep-alive
\* task, the telemetry task and the dial listener have all terminated.
C3_StopEndsAllTasks == pc[Api] = "stopped" => Running = {}

\* C4: a tick loop returns only from the select at the top of an iteration;
\* once it is writing a frame it leaves the frame only when the transfer of
\* the last chunk has returned, chunk by chunk in order, then sleeps, and is
\* back at the top before it can return.
C4_CancelOnlyAtLoopTop ==
  [][\A l \in LoopIds :
       LET t == Loop(l) IN
         /\ (pc'[t] = "exited" /\ pc[t] # "exited") => pc[t] = "top"
         /\ pc[t] = "frame" =>
              \/ pc'[t] = "frame" /\ k'[t] \in {k[t], k[t] + 1}
              \/ /\ pc'[t] = "sleep"
                 /\ k[t] = NumChunks(buffLen[l])
         /\ pc[t] = "sleep" => pc'[t] \in {"sleep", "top"}]_vars

\* C4 witness: the caller is blocked cancelling the session while its loop is
\* between the first and the second chunk of a frame
C4_Witness ==
  \E l \in LoopIds :
    /\ activeRgb = l /\ SenderOn(l)
    /\ pc[Loop(l)] = "frame" /\ k[Loop(l)] = 2

\* C7 (as claimed): whenever a tick loop has handed a buffer to writeColor for
\* an effect name whose profile resolves, the buffer had 3 * LEDChannels bytes.
C7_TickBufferHasNEntries ==
  \A l \in LoopIds : buffLen[l] \in {-1, 3 * LEDChannels}

\* C8 (as claimed): a tick that finds the effect name unresolved goes on to
\* write a frame of 3 * LEDChannels zero bytes (and then sleeps like any tick).
C8_UnresolvedWritesZeroFrame ==
  [][\A l \in LoopIds :
       (pc[Loop(l)] = "tick" /\ ~Resolves(RGBProfile) /\ pc'[Loop(l)] # "tick")
         => (pc'[Loop(l)] = "frame" /\ buffLen'[l] = 3 * LEDChannels)]_vars

(***************************************************************************)
(* SpecTransfer: transfer step by step, with a device whose Write and Read *)
(* may fail, called by several tasks.                                      *)
(***************************************************************************)
\* transfer calls each caller makes
MaxTransferCalls == 2

\* the tasks that call transfer here
IoCallers == {Api, Ka, Dial}

\* the device variables transfer does not touch
devVarsButMutex == <<crashed, pc, k, xph, activeRgb, sendTo, RGBProfile, call, arg,
                     calls, nextLoop, buffLen, CpuTemp, ControlDial,
                     BrightnessLevel, brightness, pv, dialEvents>>

\* after a failed d.dev.Write: return nil, err
AfterWriteErrorRetry == "write"
AfterWriteError == "ret"

\* a task calls d.transfer(endpoint, buffer)
IoCall(t) ==
  /\ ioPc[t] = "idle" /\ ioCalls[t] < MaxTransferCalls
  /\ ioCalls' = [ioCalls EXCEPT ![t] = ioCalls[t] + 1]
  /\ ioWrites' = [ioWrites EXCEPT ![t] = 0]
  /\ ioReads' = [ioReads EXCEPT ![t] = 0]
  /\ ioResult' = [ioResult EXCEPT ![t] = "none"]
  /\ ioPc' = [ioPc EXCEPT ![t] = "lock"]
  /\ UNCHANGED <<codecVars, apiVars, phaseVars, sessVars, restVars, devVarsButMutex, mutex>>

\* mutex.Lock(); defer mutex.Unlock(); the buffers are made
IoLock(t) ==
  /\ ioPc[t] = "lock"
  /\ Lockable
  /\ mutex' = t
  /\ ioPc' = [ioPc EXCEPT ![t] = "write"]
  /\ UNCHANGED <<codecVars, apiVars, phaseVars, sessVars, restVars, devVarsButMutex, ioCalls, ioWrites, ioReads, ioResult>>

\* d.dev.Write(bufferW): on an error, return nil, err
IoWrite(t, ok) ==
  /\ ioPc[t] = "write"
  /\ ioWrites' = [ioWrites EXCEPT ![t] = ioWrites[t] + 1]
  /\ IF ok
     THEN /\ ioPc' = [ioPc EXCEPT ![t] = "read"]
          /\ UNCHANGED ioResult
     ELSE /\ ioPc' = [ioPc EXCEPT ![t] = AfterWriteError]
          /\ ioResult' = [ioResult EXCEPT ![t] = "nil, write error"]
  /\ UNCHANGED <<codecVars, apiVars, phaseVars, sessVars, restVars, devVarsButMutex, mutex, ioCalls, ioReads>>

\* d.dev.Read(bufferR): on an error, return nil, err; else return bufferR, nil
IoRead(t, ok) ==
  /\ ioPc[t] = "read"
  /\ ioReads' = [ioReads EXCEPT ![t] = ioReads[t] + 1]
  /\ ioResult' = [ioResult EXCEPT ![t] = IF ok THEN "bufferR, nil" ELSE "nil, read error"]
  /\ ioPc' = [ioPc EXCEPT ![t] = "ret"]
  /\ UNCHANGED <<codecVars, apiVars, phaseVars, sessVars, restVars, devVarsButMutex, mutex, ioCalls, ioWrites>>

\* the deferred mutex.Unlock() runs and the call returns
IoReturn(t) ==
  /\ ioPc[t] = "ret"
  /\ mutex' = NoTask
  /\ ioPc' = [ioPc EXCEPT ![t] = "idle"]
  /\ UNCHANGED <<codecVars, apiVars, phaseVars, sessVars, restVars, devVarsButMutex, ioCalls, ioWrites, ioReads, ioResult>>

InitTransfer == CodecIdle /\ DevIdle /\ IoIdle /\ ApiIdle /\ PhaseIdle /\ SessIdle /\ RestIdle

NextTransfer ==
  \/ \E t \in IoCallers : IoCall(t)
  \/ \E t \in IoCallers : IoLock(t)
  \/ \E t \in IoCallers, ok \in BOOLEAN : IoWrite(t, ok)
  \/ \E t \in IoCallers, ok \in BOOLEAN : IoRead(t, ok)
  \/ \E t \in IoCallers : IoReturn(t)

SpecTransfer == InitTransfer /\ [][NextTransfer]_vars

\* C11: a transfer whose device Write failed returned the error and no
\* response after exactly one Write and no Read; one whose Read failed returned
\* the error and no response after one Write and one Read; either way the
\* caller no longer holds the mutex once the call has returned.
C11_TransferErrorNoRetry ==
  \A t \in IoCallers :
    /\ ioResult[t] = "nil, write error" => ioWrites[t] = 1 /\ ioReads[t] = 0
    /\ ioResult[t] = "nil, read error" => ioWrites[t] = 1 /\ ioReads[t] = 1
    /\ ioPc[t] = "idle" => mutex # t

\* C11 witness: one caller's transfer has returned a write error, another's a
\* read error, and a third caller is now inside its own round trip
C11_Witness ==
  \E t1, t2, t3 \in IoCallers :
    /\ ioPc[t1] = "idle" /\ ioResult[t1] = "nil, write error"
    /\ ioPc[t2] = "idle" /\ ioResult[t2] = "nil, read error"
    /\ ioPc[t3] = "read" /\ mutex = t3

(***************************************************************************)
(* Properties of the wired device: I/O errors, Init failures, Stop.        *)
(***************************************************************************)
\* C12 (as claimed): a failed transfer in a tick loop or in the keep-alive
\* task, or a failed read in the dial listener, leaves that task running: it
\* goes on to its next iteration.
C12_NoTaskEndsOnIOError ==
  [][/\ \A t \in Loops \cup {Ka} :
          (TransferWriteError(t) \/ TransferReadError(t))
            => (~crashed' /\ pc'[t] \notin {"none", "exited"})
     /\ DialReadError => pc'[Dial] = "read"]_vars

\* the calls that apply the effect named by RGBProfile
ApplyingCalls ==
  {"Init", "UpdateRgbProfile", "ChangeDeviceBrightness", "ChangeDeviceProfile"}

\* C17 (as claimed): once a call that applies the "keyboard" effect has
\* returned, it has written exactly one colour frame, no tick loop is alive
\* and no animation session exists.
C17_KeyboardOneFrameNoLoop ==
  (pc[Api] = "idle" /\ call \in ApplyingCalls /\ RGBProfile = "keyboard")
    => (apiFrames = 1 /\ AliveLoops = {} /\ activeRgb = 0)

\* C19: whenever Init has failed, no background task is running: either none
\* was started, or the process has ended.
C19_InitFailureLeavesNoTask ==
  initError # "none" => (crashed \/ Running = {})

\* C19 witness: the dial interface could not be enumerated after the ticker
\* tasks had been started
C19_Witness ==
  /\ initError = "enumerate"
  /\ pc[Ka] # "none" /\ pc[Tm] # "none"

\* C20 (as claimed): the hardware-mode command of Stop is transferred only
\* once the tick loops and both ticker tasks have ended, and no task is inside
\* a transfer after it.
C20_HardwareModeIsLast ==
  /\ pc[Api] = "stop_hw" =>
       (AliveLoops = {} /\ pc[Ka] = "exited" /\ pc[Tm] = "exited")
  /\ pc[Api] \in {"stop_close", "stopped"} => InFlight = {}

\* C26 (as claimed): a telemetry sample that failed leaves the cached
\* temperature as it was.
C26_FailedSampleKeepsCache ==
  [][TelemetryTick(FALSE) => CpuTemp' = CpuTemp]_vars

\* C29 (as claimed): whenever a live tick loop is at its select on
\* d.activeRgb.Exit or in its tick body, d.activeRgb is the session that this
\* loop created.
C29_LoopReadsOwnSession ==
  \A l \in LoopIds : pc[Loop(l)] \in {"top", "tick"} => activeRgb = l

\* C30 (as claimed): while a task is between the first and the last chunk of
\* a colour frame, no other task is inside a transfer.
C30_FrameChunksContiguous ==
  \A t \in Tasks :
    (pc[t] \in WriteColorLabels /\ k[t] > 1) =>
       \A u \in Tasks \ {t} : xph[u] # "r"

\* the labels of colour frames, brightness commands and keep-alive pings
LaterLabels == WriteColorLabels \cup {"init_bright", "bright", "ping"}

\* C34: the first command written to the device is the software-mode command
\* of Init, and every colour frame, brightness command and keep-alive ping is
\* written when the software-mode and the LED-activation command have both
\* been written.
C34_SoftwareModeAndLedsFirst ==
  /\ [](cmdLog.first \in {"none", "init_sw"})
  /\ [][\A t \in Tasks :
         (xph[t] = "w" /\ xph'[t] = "r" /\ pc[t] \in LaterLabels)
           => (cmdLog.sw /\ cmdLog.leds)]_vars

\* C34 witness: Init is inside its brightness command while the keep-alive
\* task is about to ping and a tick loop is writing a frame
C34_Witness ==
  /\ call = "Init" /\ pc[Api] = "init_bright" /\ xph[Api] = "r"
  /\ pc[Ka] = "ping"
  /\ \E l \in LoopIds : pc[Loop(l)] = "frame"
  /\ cmdLog = [first |-> "init_sw", sw |-> TRUE, leds |-> TRUE]

\* C35: a call of UpdateRgbProfile with a name that does not resolve has
\* returned at once and has changed nothing: not the profile's effect name,
\* not d.activeRgb, no send on an Exit channel, no tick loop started or ended,
\* no transfer begun, the mutex untouched.
C35_UnknownEffectChangesNothing ==
  [][\A p \in EffectNames :
       (~Resolves(p) /\ UpdateRgbProfile(p)) =>
          UNCHANGED <<RGBProfile, activeRgb, sendTo, nextLoop, pc, k, xph, mutex,
                      buffLen, crashed>>]_vars

\* C35 witness: after Init the only call made was one with a name that does
\* not resolve; the tick loop started by Init is in the middle of a frame on
\* its own session
C35_Witness ==
  /\ call = "Init" /\ calls = 1 /\ pc[Api] = "idle"
  /\ RGBProfile = "rainbow"
  /\ activeRgb = 1 /\ pc[Loop(1)] = "frame" /\ k[Loop(1)] = 2
  /\ pc[Loop(2)] = "none"

(***************************************************************************)
(* SpecDial: the dial listener of either variant alone, report by report.  *)
(***************************************************************************)
\* dial reports the listener handles
MaxDialSteps == 3

\* values of BrightnessLevel in the profile the device starts from
StoredLevels == {0, 50, 200, 500, 950, 1000}

\* the reports: a press, a rotation up (value 1), a rotation down (value 255),
\* any other report
DialSpecReports == {"press", "inc", "dec", "other"}

\* the brightness binding's new level: the wired listener treats every report
\* that is neither a press nor value 1 as a rotation down, the wireless one
\* changes nothing unless the value is 255
DialLevel(v, ev, b, newPv) ==
  IF v = "wireless" /\ ev = "other" THEN b ELSE DialBrightness(ev, b, newPv)

\* binary.LittleEndian.PutUint16(buf[0:2], brightness)
DialPayloadBigEndian(b) == <<b \div 256, b % 256>>
DialPayload(b) == PutUint16(b)

\* controlDialListener has started on a device that is otherwise idle
InitDialSpec ==
  /\ variant \in Variants
  /\ op = "none"
  /\ payload = <<>>
  /\ data = <<>>
  /\ endpoint = <<>>
  /\ dataTypeSetColor \in DataTypeTags(variant)
  /\ wcPc = "idle"
  /\ chunks = <<>>
  /\ ci = 1
  /\ wire = <<>>
  /\ crashed = FALSE
  /\ mutex = NoTask
  /\ pc = [t \in Tasks |-> IF t = Dial THEN "read" ELSE "none"]
  /\ k = [t \in Tasks |-> 1]
  /\ xph = [t \in Tasks |-> "w"]
  /\ activeRgb = 0
  /\ sendTo = 0
  /\ RGBProfile = "keyboard"
  /\ call = "none"
  /\ arg = "none"
  /\ calls = 0
  /\ nextLoop = 1
  /\ buffLen = [l \in LoopIds |-> -1]
  /\ CpuTemp = 40
  /\ ControlDial \in {1, 2}
  /\ BrightnessLevel \in StoredLevels
  /\ brightness = (IF BrightnessLevel = 0 THEN 1000 ELSE BrightnessLevel)
  /\ pv = FALSE
  /\ dialEvents = 0
  /\ IoIdle
  /\ ApiIdle
  /\ PhaseIdle
  /\ SessIdle /\ RestIdle

\* one iteration of the listen loop: the report is read, the switch on
\* ControlDial handles it, the brightness binding stores the level, saves the
\* profile and transfers cmdBrightness; the report joins wire tagged with the
\* event and the level stored before it
DialHandle(ev) ==
  /\ ~crashed
  /\ pc[Dial] = "read" /\ dialEvents < MaxDialSteps
  /\ dialEvents' = dialEvents + 1
  /\ pv' = IF ev = "press" THEN ~pv ELSE pv
  /\ IF ControlDial = 2
     THEN /\ brightness' = DialLevel(variant, ev, brightness, pv')
          /\ BrightnessLevel' = brightness'
          /\ wire' = Append(wire,
                            [ep |-> cmdBrightness, n |-> 2,
                             report |-> TransferReport(variant, cmdBrightness,
                                                       DialPayload(brightness')),
                             ev |-> ev, was |-> BrightnessLevel])
     ELSE UNCHANGED <<brightness, BrightnessLevel, wire>>
  /\ UNCHANGED <<variant, op, payload, data, endpoint, dataTypeSetColor, wcPc,
                 chunks, ci>>
  /\ UNCHANGED <<crashed, mutex, pc, k, xph, activeRgb, sendTo, RGBProfile, call,
                 arg, calls, nextLoop, buffLen, CpuTemp, ControlDial>>
  /\ UNCHANGED <<ioVars, apiVars, phaseVars, sessVars, restVars>>

NextDial ==
  \/ \E ev \in DialSpecReports : DialHandle(ev)
  \/ DialReadError

SpecDial == InitDialSpec /\ [][NextDial]_vars

\* the level carried by the i-th brightness command
WireLevel(i) == Uint16(ReportPayload(wire[i]))

\* C13 (as claimed): in brightness binding the stored level stays within
\* [0, 1000] whatever the reports and whatever stored level in [0, 1000] the
\* listener started from.
C13_LevelWithinRange ==
  ControlDial = 2 => (BrightnessLevel >= 0 /\ BrightnessLevel <= 1000)

\* C14 (as claimed): in brightness binding a press while the stored level is
\* L > 0 sets the level to 0, and a press right after it restores L.
C14_PressTogglesRemembered ==
  \A i \in 1..Len(wire) :
    (wire[i].ev = "press" /\ wire[i].was > 0) =>
      /\ WireLevel(i) = 0
      /\ (i < Len(wire) /\ wire[i + 1].ev = "press") => WireLevel(i + 1) = wire[i].was

\* C15: in brightness binding every handled report has produced exactly one
\* transfer, of cmdBrightness with a two-byte payload; the last one carries the
\* level now stored in the profile as a little-endian 16-bit value; no colour
\* frame has been written and the animation session is untouched.
C15_DialEventOneBrightnessCommand ==
  ControlDial = 2 =>
    /\ Len(wire) = dialEvents
    /\ \A i \in 1..Len(wire) :
         /\ wire[i].ep = cmdBrightness
         /\ wire[i].n = 2
         /\ wire[i].report[2] = CommandByte(variant)
         /\ SubSeq(wire[i].report, headerSize + 1, headerSize + 3) = cmdBrightness
    /\ Len(wire) > 0 => WireLevel(Len(wire)) = BrightnessLevel
    /\ op = "none" /\ wcPc = "idle"
    /\ activeRgb = 0 /\ sendTo = 0 /\ AliveLoops = {}

\* C15 witness: a press, a rotation up and a rotation down have been handled
\* and the level is back at 0
C15_Witness ==
  /\ ControlDial = 2 /\ Len(wire) = 3
  /\ wire[1].ev = "press" /\ wire[2].ev = "inc" /\ wire[3].ev = "dec"
  /\ WireLevel(2) = 100 /\ BrightnessLevel = 0

(***************************************************************************)
(* SpecPhase: the phase counters and flags of one tick loop (the goroutine *)
(* of setDeviceColor) and of colorshift.Init, tick by tick from a fresh    *)
(* session, with a profile whose smoothness may be edited between ticks.   *)
(***************************************************************************)
\* ticks followed
MaxTicks == 25

\* values of r.Smoothness / smoothness
SmoothnessValues == {3, 10}

\* effects whose counter is compared with r.Smoothness
SmoothnessEffects == {"colorpulse", "flickering", "colorshift", "colorwarp"}
\* effects whose counter is compared with lightChannels
ChannelEffects == {"circleshift", "circle", "spinner"}

PhaseEffects == SmoothnessEffects \cup ChannelEffects \cup {"colorshift.Init"}

\* a fresh session: counters 0, flags false
InitPhase ==
  /\ CodecIdle /\ DevIdle /\ IoIdle /\ ApiIdle /\ SessIdle /\ RestIdle
  /\ fx \in PhaseEffects
  /\ Smoothness \in SmoothnessValues
  /\ counter = 0
  /\ reverse = FALSE
  /\ ticks = 0
  /\ toggles = 0
  /\ passed = -1

\* the comparison of a counter with its limit: counter >= limit
SaturatedExactly(c, limit) == c = limit
Saturated(c, limit) == c >= limit

\* profile := rgb.GetRgbProfile(...) is read again by every tick and
\* r.Smoothness is common.Clamp(profile.Smoothness, 1, 100): the profile has
\* been edited since the last tick
SmoothnessChange(s) ==
  /\ fx \in SmoothnessEffects /\ ticks < MaxTicks
  /\ s # Smoothness
  /\ Smoothness' = s
  /\ UNCHANGED <<fx, counter, reverse, ticks, toggles, passed>>
  /\ UNCHANGED <<codecVars, devVars, ioVars, apiVars, sessVars, restVars>>

\* one tick of case "colorpulse": increment, reset at r.Smoothness, render
ColorpulseTick ==
  /\ fx = "colorpulse" /\ ticks < MaxTicks
  /\ IF Saturated(counter + 1, Smoothness)
     THEN /\ counter' = 0
          /\ toggles' = toggles + 1
     ELSE /\ counter' = counter + 1
          /\ UNCHANGED toggles
  /\ passed' = counter'
  /\ ticks' = ticks + 1
  /\ UNCHANGED <<fx, Smoothness, reverse, codecVars, devVars, ioVars, apiVars, sessVars, restVars>>

\* one tick of case "flickering": reset at r.Smoothness, else increment; render
FlickeringTick ==
  /\ fx = "flickering" /\ ticks < MaxTicks
  /\ IF Saturated(counter, Smoothness)
     THEN /\ counter' = 0
          /\ toggles' = toggles + 1
     ELSE /\ counter' = counter + 1
          /\ UNCHANGED toggles
  /\ passed' = counter'
  /\ ticks' = ticks + 1
  /\ UNCHANGED <<fx, Smoothness, reverse, codecVars, devVars, ioVars, apiVars, sessVars, restVars>>

\* one tick of case "colorshift": the counter is reset and the flag flipped
\* when the counter has reached r.Smoothness, then the counter is used and
\* incremented
ColorshiftTick ==
  /\ fx = "colorshift" /\ ticks < MaxTicks
  /\ IF Saturated(counter, Smoothness)
     THEN /\ passed' = 0
          /\ counter' = 0 + 1
          /\ reverse' = ~reverse
          /\ toggles' = toggles + 1
     ELSE /\ passed' = counter
          /\ counter' = counter + 1
          /\ UNCHANGED <<reverse, toggles>>
  /\ ticks' = ticks + 1
  /\ UNCHANGED <<fx, Smoothness, codecVars, devVars, ioVars, apiVars, sessVars, restVars>>

\* one tick of case "colorwarp"
ColorwarpTick ==
  /\ fx = "colorwarp" /\ ticks < MaxTicks
  /\ IF Saturated(counter, Smoothness)
     THEN /\ counter' = 0
          /\ reverse' = TRUE
          /\ toggles' = IF reverse THEN toggles ELSE toggles + 1
     ELSE IF counter = 0 /\ reverse
     THEN /\ reverse' = FALSE
          /\ toggles' = toggles + 1
          /\ UNCHANGED counter
     ELSE /\ counter' = counter + 1
          /\ UNCHANGED <<reverse, toggles>>
  /\ passed' = counter'
  /\ ticks' = ticks + 1
  /\ UNCHANGED <<fx, Smoothness, codecVars, devVars, ioVars, apiVars, sessVars, restVars>>

\* one tick of case "circleshift", "circle" or "spinner": reset at
\* lightChannels, else increment; render
ChannelTick ==
  /\ fx \in ChannelEffects /\ ticks < MaxTicks
  /\ IF Saturated(counter, LEDChannels)
     THEN /\ counter' = 0
          /\ toggles' = toggles + 1
     ELSE /\ counter' = counter + 1
          /\ UNCHANGED toggles
  /\ passed' = counter'
  /\ ticks' = ticks + 1
  /\ UNCHANGED <<fx, Smoothness, reverse, codecVars, devVars, ioVars, apiVars, sessVars, restVars>>

\* one frame of colorshift.Init: the frame for step i is written, i++; past
\* i = smoothness the loop ends and the other direction starts at i = 0
ColorshiftInitTick ==
  /\ fx = "colorshift.Init" /\ ticks < MaxTicks
  /\ passed' = counter
  /\ IF counter + 1 > Smoothness
     THEN /\ counter' = 0
          /\ reverse' = ~reverse
          /\ toggles' = toggles + 1
     ELSE /\ counter' = counter + 1
          /\ UNCHANGED <<reverse, toggles>>
  /\ ticks' = ticks + 1
  /\ UNCHANGED <<fx, Smoothness, codecVars, devVars, ioVars, apiVars, sessVars, restVars>>

NextPhase ==
  \/ \E s \in SmoothnessValues : SmoothnessChange(s)
  \/ ColorpulseTick
  \/ FlickeringTick
  \/ ColorshiftTick
  \/ ColorwarpTick
  \/ ChannelTick
  \/ ColorshiftInitTick

SpecPhase == InitPhase /\ [][NextPhase]_vars

\* C16 (as claimed): with smoothness 10, after 10 ticks of a fresh session the
\* phase counter is back at 0 and the reverse flag has changed exactly once.
C16_ResetAfterSmoothnessTicks ==
  (Smoothness = 10 /\ ticks = 10) => (counter = 0 /\ toggles = 1)

\* C21: for colorpulse, colorshift, colorwarp and flickering the counter a
\* tick hands to the render function lies in [0, smoothness], after any number
\* of ticks and also when the profile's smoothness has changed between ticks.
C21_PhaseCounterWithinSmoothness ==
  [][(fx \in SmoothnessEffects /\ ticks' # ticks)
       => passed' \in 0..Smoothness]_vars

\* C21 witness: flickering has counted to 7 under smoothness 10, the
\* smoothness has become 3, and the eighth tick has reset the counter
C21_Witness ==
  /\ fx = "flickering" /\ Smoothness = 3
  /\ ticks = 8 /\ toggles = 1 /\ passed = 0

\* C22 (as claimed): for circle, circleshift and spinner the counter a tick
\* hands to the render function is a channel index, in [0, LEDChannels - 1].
C22_ChannelCounterIsIndex ==
  (fx \in ChannelEffects /\ passed # -1) => passed \in 0..(LEDChannels - 1)

(***************************************************************************)
(* Properties of the frame codec: the "static" frame.                      *)
(***************************************************************************)
\* C18 (as claimed): when the wired "static" path has written its frame for
\* start colour c and brightness b, every channel of the frame on the
\* transport equals ModifyBrightness(c, b).
C18_StaticFrameUniform ==
  \A n \in StaticChannelCounts, c \in StartColors, b \in Brightnesses :
    (/\ variant = "wired" /\ op = "writeColor" /\ wcPc = "done"
     /\ payload = StaticFrame(n, c, b))
      => \A i \in 1..n :
           SubSeq(Recovered, 3 * i - 2, 3 * i) = ModifyBrightness(c, b)

(***************************************************************************)
(* SpecSession: the goroutines of one wired device and the channels        *)
(* between them, after Init has returned with an animated profile: the     *)
(* tick loops and their sessions, two API callers that restart the effect  *)
(* or call Stop, the telemetry and the keep-alive goroutine.  A tick (the  *)
(* switch, writeColor and the sleep) is one step.                          *)
(***************************************************************************)
\* the animated effects of the session specification: one that keeps no
\* counter and one that does
SessEffects == {"rainbow", "colorwarp"}

\* r.Smoothness
SessSmoothness == 1

\* results of rgb.GenerateRandomColor
RandomColors == {1, 2}

\* Init has returned with RGBProfile p: setAutoRefresh and setKeepAlive have
\* started their goroutines and setDeviceColor has started the first tick loop
SessAfterInit(p) ==
  /\ CodecIdle /\ DevIdle /\ IoIdle /\ ApiIdle /\ PhaseIdle /\ RestIdle
  /\ sDev = [activeRgb |-> 0, RGBProfile |-> p, calls |-> 0, stops |-> 0,
             nextLoop |-> 2, crashed |-> FALSE, tm |-> "wait", ka |-> "wait",
             RGBStartColor |-> 0, RGBEndColor |-> 0]
  /\ sLoops = [l \in SessLoopIds |->
                 IF l = 1 THEN [FreshLoop EXCEPT !.pc = "spawned"] ELSE FreshLoop]
  /\ sCallers = [c \in Callers |-> IdleCaller]

InitSession == \E p \in SessEffects : SessAfterInit(p)

\* caller c is blocked sending on the Exit channel of session n
SessSenderOn(c, n) == sCallers[c].pc \in {"send", "stop_send"} /\ sCallers[c].to = n

\* UpdateRgbProfile(p): the profile is set and saved, then the session is
\* cancelled
SessUpdateRgbProfile(c, p) ==
  /\ ~sDev.crashed
  /\ sCallers[c].pc = "idle"
  /\ sDev.calls < MaxSessCalls /\ sDev.stops = 0
  /\ sDev' = [sDev EXCEPT !.RGBProfile = p, !.calls = sDev.calls + 1]
  /\ sCallers' = [sCallers EXCEPT ![c] = [pc |-> "cancel", call |-> "UpdateRgbProfile", to |-> 0]]
  /\ UNCHANGED sLoops
  /\ UNCHANGED <<codecVars, devVars, ioVars, apiVars, phaseVars, restVars>>

\* ChangeDeviceBrightness(mode): the brightness is set and saved, then the
\* session is cancelled
SessChangeDeviceBrightness(c) ==
  /\ ~sDev.crashed
  /\ sCallers[c].pc = "idle"
  /\ sDev.calls < MaxSessCalls /\ sDev.stops = 0
  /\ sDev' = [sDev EXCEPT !.calls = sDev.calls + 1]
  /\ sCallers' = [sCallers EXCEPT ![c] = [pc |-> "cancel", call |-> "ChangeDeviceBrightness", to |-> 0]]
  /\ UNCHANGED sLoops
  /\ UNCHANGED <<codecVars, devVars, ioVars, apiVars, phaseVars, restVars>>

\* if d.activeRgb != nil {
SessCancelCheck(c) ==
  /\ ~sDev.crashed
  /\ sCallers[c].pc = "cancel"
  /\ sCallers' = [sCallers EXCEPT ![c].pc = IF sDev.activeRgb # 0 THEN "deref" ELSE "start"]
  /\ UNCHANGED <<sDev, sLoops>>
  /\ UNCHANGED <<codecVars, devVars, ioVars, apiVars, phaseVars, restVars>>

\* d.activeRgb.Exit <- true: d.activeRgb is read again; nil is a nil
\* dereference, else the caller blocks on that session's channel
SessCancelSend(c) ==
  /\ ~sDev.crashed
  /\ sCallers[c].pc = "deref"
  /\ IF sDev.activeRgb = 0
     THEN /\ sDev' = [sDev EXCEPT !.crashed = TRUE]
          /\ UNCHANGED sCallers
     ELSE /\ sCallers' = [sCallers EXCEPT ![c].pc = "send", ![c].to = sDev.activeRgb]
          /\ UNCHANGED sDev
  /\ UNCHANGED sLoops
  /\ UNCHANGED <<codecVars, devVars, ioVars, apiVars, phaseVars, restVars>>

\* d.activeRgb = nil }
SessSetNil(c) ==
  /\ ~sDev.crashed
  /\ sCallers[c].pc = "setnil"
  /\ sDev' = [sDev EXCEPT !.activeRgb = 0, !.RGBStartColor = 0, !.RGBEndColor = 0]
  /\ sCallers' = [sCallers EXCEPT ![c].pc = "start"]
  /\ UNCHANGED sLoops
  /\ UNCHANGED <<codecVars, devVars, ioVars, apiVars, phaseVars, restVars>>

\* d.setDeviceColor(): the reset frame and the go statement of a new tick
\* loop; the call returns
SessSetDeviceColor(c) ==
  /\ ~sDev.crashed
  /\ sCallers[c].pc = "start"
  /\ sLoops' = [sLoops EXCEPT ![sDev.nextLoop].pc = "spawned"]
  /\ sDev' = [sDev EXCEPT !.nextLoop = sDev.nextLoop + 1]
  /\ sCallers' = [sCallers EXCEPT ![c] = IdleCaller]
  /\ UNCHANGED <<codecVars, devVars, ioVars, apiVars, phaseVars, restVars>>

\* Stop(): if d.activeRgb != nil { d.activeRgb.Stop() }; timer.Stop()
SessStop(c) ==
  /\ ~sDev.crashed
  /\ sCallers[c].pc = "idle"
  /\ sDev.stops < MaxStops
  /\ sDev' = [sDev EXCEPT !.stops = sDev.stops + 1]
  /\ sCallers' = [sCallers EXCEPT ![c] =
       IF sDev.activeRgb # 0
       THEN [pc |-> "stop_send", call |-> "Stop", to |-> sDev.activeRgb]
       ELSE [pc |-> "stop_auth", call |-> "Stop", to |-> 0]]
  /\ UNCHANGED sLoops
  /\ UNCHANGED <<codecVars, devVars, ioVars, apiVars, phaseVars, restVars>>

\* authRefreshChan <- true, received by the telemetry goroutine, which returns
SessTelemetryExit(c) ==
  /\ ~sDev.crashed
  /\ sCallers[c].pc = "stop_auth" /\ sDev.tm = "wait"
  /\ sDev' = [sDev EXCEPT !.tm = "exited"]
  /\ sCallers' = [sCallers EXCEPT ![c].pc = "stop_ka"]
  /\ UNCHANGED sLoops
  /\ UNCHANGED <<codecVars, devVars, ioVars, apiVars, phaseVars, restVars>>

\* keepAliveChan <- true, received by the keep-alive goroutine, which
\* returns; then setHardwareMode, d.dev.Close() and Stop returns
SessKeepAliveExit(c) ==
  /\ ~sDev.crashed
  /\ sCallers[c].pc = "stop_ka" /\ sDev.ka = "wait"
  /\ sDev' = [sDev EXCEPT !.ka = "exited"]
  /\ sCallers' = [sCallers EXCEPT ![c] = IdleCaller]
  /\ UNCHANGED sLoops
  /\ UNCHANGED <<codecVars, devVars, ioVars, apiVars, phaseVars, restVars>>

\* the goroutine's first statements: fresh counters, d.activeRgb = rgb.Exit()
\* and the two random colours
SessLoopSetup(l) ==
  /\ ~sDev.crashed
  /\ sLoops[l].pc = "spawned"
  /\ \E a, b \in RandomColors :
       sDev' = [sDev EXCEPT !.activeRgb = l, !.RGBStartColor = a, !.RGBEndColor = b]
  /\ sLoops' = [sLoops EXCEPT ![l].pc = "top"]
  /\ UNCHANGED sCallers
  /\ UNCHANGED <<codecVars, devVars, ioVars, apiVars, phaseVars, restVars>>

\* where a caller goes once its send on Exit has been received
SessAfterSend(c) == IF sCallers[c].pc = "send" THEN "setnil" ELSE "stop_auth"

\* select { case <-d.activeRgb.Exit: return
SessLoopExit(l) ==
  /\ ~sDev.crashed
  /\ sLoops[l].pc = "top"
  /\ sDev.activeRgb # 0
  /\ \E c \in Callers :
       /\ SessSenderOn(c, sDev.activeRgb)
       /\ sCallers' = [sCallers EXCEPT ![c].pc = SessAfterSend(c)]
  /\ sLoops' = [sLoops EXCEPT ![l] = [FreshLoop EXCEPT !.pc = "exited"]]
  /\ UNCHANGED sDev
  /\ UNCHANGED <<codecVars, devVars, ioVars, apiVars, phaseVars, restVars>>

\* case "colorwarp" on the loop's variables
ColorwarpCase(L) ==
  IF L.counterColorwarp >= SessSmoothness
  THEN [L EXCEPT !.counterColorwarp = 0, !.colorwarpGeneratedReverse = TRUE]
  ELSE IF L.counterColorwarp = 0 /\ L.colorwarpGeneratedReverse
  THEN [L EXCEPT !.colorwarpGeneratedReverse = FALSE]
  ELSE [L EXCEPT !.counterColorwarp = L.counterColorwarp + 1]

\* the tick of case "colorwarp" shifts and regenerates the session's colours
ColorwarpGenerates(L) ==
  L.counterColorwarp >= SessSmoothness /\ ~L.colorwarpGeneratedReverse

\* ... default: one tick; d.activeRgb == nil is a nil dereference in the
\* select.  colorwarp reads and writes the colours of d.activeRgb
SessLoopTick(l) ==
  /\ ~sDev.crashed
  /\ sLoops[l].pc = "top"
  /\ IF sDev.activeRgb = 0
     THEN /\ sDev' = [sDev EXCEPT !.crashed = TRUE]
          /\ UNCHANGED sLoops
     ELSE /\ \A c \in Callers : ~SessSenderOn(c, sDev.activeRgb)
          /\ IF sDev.RGBProfile = "rainbow"
             THEN /\ sLoops' = [sLoops EXCEPT ![l].last = "rainbow",
                                                ![l].seen = <<0, 0>>]
                  /\ UNCHANGED sDev
             ELSE /\ \E rnd \in RandomColors :
                       sDev' = IF ColorwarpGenerates(sLoops[l])
                               THEN [sDev EXCEPT !.RGBStartColor = sDev.RGBEndColor,
                                                 !.RGBEndColor = rnd]
                               ELSE sDev
                  /\ sLoops' = [sLoops EXCEPT ![l] =
                       [ColorwarpCase(sLoops[l]) EXCEPT
                          !.last = "colorwarp",
                          !.seen = <<sDev'.RGBStartColor, sDev'.RGBEndColor>>]]
  /\ UNCHANGED sCallers
  /\ UNCHANGED <<codecVars, devVars, ioVars, apiVars, phaseVars, restVars>>

NextSession ==
  \/ \E c \in Callers, p \in SessEffects : SessUpdateRgbProfile(c, p)
  \/ \E c \in Callers : SessCancelCheck(c)
  \/ \E c \in Callers : SessCancelSend(c)
  \/ \E c \in Callers : SessSetNil(c)
  \/ \E c \in Callers : SessSetDeviceColor(c)
  \/ \E l \in SessLoopIds : SessLoopSetup(l)
  \/ \E l \in SessLoopIds : SessLoopExit(l)
  \/ \E l \in SessLoopIds : SessLoopTick(l)

SpecSession == InitSession /\ [][NextSession]_vars

(***************************************************************************)
(* SpecSessionFair: the same goroutines with calls that restart the        *)
(* effect without changing it, and Stop, under fair scheduling.            *)
(***************************************************************************)
InitSessionFair == SessAfterInit("rainbow")

NextSessionFair ==
  \/ \E c \in Callers : SessChangeDeviceBrightness(c)
  \/ \E c \in Callers : SessCancelCheck(c)
  \/ \E c \in Callers : SessCancelSend(c)
  \/ \E c \in Callers : SessSetNil(c)
  \/ \E c \in Callers : SessSetDeviceColor(c)
  \/ \E c \in Callers : SessStop(c)
  \/ \E c \in Callers : SessTelemetryExit(c)
  \/ \E c \in Callers : SessKeepAliveExit(c)
  \/ \E l \in SessLoopIds : SessLoopSetup(l)
  \/ \E l \in SessLoopIds : SessLoopExit(l)
  \/ \E l \in SessLoopIds : SessLoopTick(l)

\* every goroutine that can take a step eventually takes one: a tick loop
\* runs, a caller that is not blocked goes on, a blocked send is received
\* when its receiver is at its select
SessLoopStep(l) == SessLoopSetup(l) \/ SessLoopExit(l) \/ SessLoopTick(l)
SessCallerStep(c) ==
  \/ SessCancelCheck(c) \/ SessCancelSend(c) \/ SessSetNil(c)
  \/ SessSetDeviceColor(c) \/ SessTelemetryExit(c) \/ SessKeepAliveExit(c)

SessFairness ==
  /\ \A l \in SessLoopIds : WF_vars(SessLoopStep(l))
  /\ \A c \in Callers : WF_vars(SessCallerStep(c))

SpecSessionFair == InitSessionFair /\ [][NextSessionFair]_vars /\ SessFairness

\* loop l makes a colorwarp tick in this step
ColorwarpTicks(l) ==
  /\ sLoops[l].pc = "top" /\ sLoops'[l].pc = "top"
  /\ sDev.RGBProfile = "colorwarp"
  /\ sLoops'[l] # sLoops[l]

\* C23 (as claimed): the first colorwarp tick a loop renders after another
\* effect (or as its first tick) starts from counterColorwarp at zero and the
\* flag cleared.
C23_SwitchStartsFromZero ==
  [][\A l \in SessLoopIds :
       (ColorwarpTicks(l) /\ sLoops[l].last # "colorwarp") =>
          sLoops[l].counterColorwarp = 0 /\ ~sLoops[l].colorwarpGeneratedReverse]_vars

\* C24 (as claimed): between two colorwarp ticks of a loop the drifting
\* colours it renders change only on the tick that finds the counter
\* saturated with the flag clear, and then the start colour is the end colour
\* of the tick before.
C24_ColoursChangeOnlyOnSaturation ==
  [][\A l \in SessLoopIds :
       (ColorwarpTicks(l) /\ sLoops[l].last = "colorwarp") =>
          IF ColorwarpGenerates(sLoops[l])
          THEN sLoops'[l].seen[1] = sLoops[l].seen[2]
          ELSE sLoops'[l].seen = sLoops[l].seen]_vars

\* C27 (as claimed): every call of Stop, a repeated one included, returns
\* (unless the process has died).
C27_StopReturns ==
  \A c \in Callers :
    (sCallers[c].call = "Stop") ~> (sCallers[c].call # "Stop" \/ sDev.crashed)

\* C28 (as claimed): on a device that is not being stopped, every send of a
\* restarting call on a session's Exit channel is received (unless the
\* process has died), also with two callers.
C28_CancelSendIsReceived ==
  \A c \in Callers :
    (sCallers[c].pc = "send" /\ sDev.stops = 0)
      ~> (sCallers[c].pc # "send" \/ sDev.crashed \/ sDev.stops > 0)

(***************************************************************************)
(* SpecWireless: the wireless variant after Init: UpdateRgbProfile and     *)
(* its setDeviceColor, the writeColor it calls chunk by chunk, and the     *)
(* keep-alive pings that go on meanwhile.                                  *)
(***************************************************************************)
\* calls of UpdateRgbProfile that pass the check of d.RGBModes
MaxWirelessCalls == 2
\* keep-alive ticks
MaxPings == 1

cmdDongle == 8

\* the keys of d.RGBModes
WirelessEffects ==
  {"watercolor", "colorpulse", "colorshift", "colorwave", "rain", "rainbowwave",
   "spiralrainbow", "tlk", "tlr", "keyboard", "off"}

\* the names UpdateRgbProfile is called with: "ghost" is not in d.RGBModes
WirelessNames == WirelessEffects \cup {"ghost"}

\* d.DeviceProfile.Keyboards[d.DeviceProfile.Profile] exists: the first save
\* makes Keyboards["default"] with Profile "default", and the calls that
\* change Profile or delete a keyboard keep the entry of Profile
KeyboardMaybeAbsent == {TRUE, FALSE}
KeyboardPresent == {TRUE}

\* the value setDeviceColor assigns to dataTypeSetColor in the effect's case
WirelessTag(p) ==
  CASE p \in {"off", "keyboard"} -> <<126, 32, 1>>
    [] p = "rain" -> <<126, 160, 2, 4, 1>>
    [] p = "tlk" -> <<249, 177, 2, 4>>
    [] p = "tlr" -> <<162, 9, 2, 4>>
    [] p = "spiralrainbow" -> <<135, 171, 0, 4, 6>>
    [] p = "colorpulse" -> <<79, 173, 2, 4>>
    [] p = "colorshift" -> <<250, 165, 2, 4>>
    [] p = "colorwave" -> <<255, 123, 2, 4, 4>>
    [] p = "rainbowwave" -> <<76, 185, 0, 4, 4>>
    [] p = "watercolor" -> <<34, 0, 3, 4>>

\* the buf the effect's case hands to writeColor; c is the keyboard's
\* colour <<Red, Green, Blue>>
WirelessBuf(p, c) ==
  IF p = "off"
  THEN [i \in 1..93 |-> IF i = 4 THEN 1 ELSE IF i = 5 THEN 255 ELSE 0]
  ELSE IF p = "keyboard"
  THEN [i \in 1..93 |-> CASE i = 4 -> 1 [] i = 5 -> 255 [] i = 6 -> c[3]
                          [] i = 7 -> c[2] [] i = 8 -> c[1] [] OTHER -> 0]
  ELSE IF p = "watercolor"
  THEN [i \in 1..93 |-> IF i = 3 THEN 1 ELSE IF i \in 4..7 THEN 255 ELSE 0]
  ELSE Zeros(89)

\* the wireless device after Init, between calls
InitWireless ==
  /\ variant = "wireless"
  /\ op = "none"
  /\ payload = <<>>
  /\ data = <<>>
  /\ endpoint = cmdWriteColor("wireless")
  /\ dataTypeSetColor = <<126, 32, 1>>
  /\ wcPc = "idle"
  /\ chunks = <<>>
  /\ ci = 1
  /\ wire = <<>>
  /\ DevIdle /\ IoIdle /\ ApiIdle /\ PhaseIdle /\ SessIdle /\ RestIdle

\* UpdateRgbProfile(p) on the wireless variant, up to the writeColor of
\* setDeviceColor: a name outside d.RGBModes returns 0; d.activeRgb is nil;
\* the effect's case assigns dataTypeSetColor and calls writeColor once when
\* the keyboard profile exists
WirelessUpdateRgbProfile(p, c, ok) ==
  /\ wcPc \in {"idle", "done"}
  /\ calls < MaxWirelessCalls
  /\ IF p \notin WirelessEffects
     THEN UNCHANGED <<RGBProfile, call, arg, calls, codecVars>>
     ELSE /\ RGBProfile' = p
          /\ call' = "UpdateRgbProfile"
          /\ arg' = p
          /\ calls' = calls + 1
          /\ IF ok
             THEN /\ dataTypeSetColor' = WirelessTag(p)
                  /\ payload' = WirelessBuf(p, c)
                  /\ data' = payload'
                  /\ op' = "writeColor"
                  /\ wcPc' = "call"
                  /\ chunks' = <<>>
                  /\ ci' = 1
                  /\ UNCHANGED <<variant, endpoint, wire>>
             ELSE UNCHANGED codecVars
  /\ UNCHANGED <<crashed, mutex, pc, k, xph, activeRgb, sendTo, nextLoop, buffLen,
                 CpuTemp, ControlDial, BrightnessLevel, brightness, pv, dialEvents>>
  /\ UNCHANGED <<ioVars, apiVars, phaseVars, sessVars, restVars>>

\* the report of a keep-alive ping with the given command byte
PingReport(command) ==
  [ep |-> cmdKeepAlive, n |-> 0,
   report |-> [TransferReport("wireless", cmdKeepAlive, <<>>) EXCEPT ![2] = command]]

\* pings on the transport
Pings == {i \in 1..Len(wire) : wire[i].ep = cmdKeepAlive}

\* case <-timerKeepAlive.C: d.keepAlive(), a ping of the dongle and a ping of
\* the keyboard
WirelessKeepAlive ==
  /\ Cardinality(Pings) < 2 * MaxPings
  /\ wire' = wire \o <<PingReport(cmdDongle), PingReport(cmdKeyboard)>>
  /\ UNCHANGED <<variant, op, payload, data, endpoint, dataTypeSetColor, wcPc, chunks, ci>>
  /\ UNCHANGED notCodecVars

NextWireless ==
  \/ \E p \in WirelessNames, c \in StartColors, ok \in KeyboardPresent :
       WirelessUpdateRgbProfile(p, c, ok)
  \/ WriteColorCall
  \/ WriteColorChunk
  \/ WirelessKeepAlive

SpecWireless == InitWireless /\ [][NextWireless]_vars

\* the first chunks of colour frames on the transport
FrameStarts == {i \in 1..Len(wire) : wire[i].ep = cmdWriteColor("wireless")}

\* the data-type tag of length n the report carries after the frame's header
ReportTag(r, n) ==
  SubSeq(r, headerSize + Len(cmdWriteColor("wireless")) + headerWriteSize + 1,
            headerSize + Len(cmdWriteColor("wireless")) + headerWriteSize + n)

\* C25: on the wireless variant every apply of a supported effect puts exactly
\* one colour frame on the transport, carrying the effect's data-type tag, and
\* starts no tick loop: once the apply's writeColor has returned there are as
\* many frames as applies, the last one is the effect's, no session exists and
\* no loop has been started; pings add no frame.
C25_WirelessOneFramePerApply ==
  /\ Cardinality(FrameStarts) <= calls
  /\ activeRgb = 0 /\ nextLoop = 1 /\ AliveLoops = {}
  /\ (variant = "wireless" /\ wcPc \in {"idle", "done"}) =>
       /\ Cardinality(FrameStarts) = calls
       /\ calls > 0 =>
            LET last == CHOOSE i \in FrameStarts : \A j \in FrameStarts : j <= i
                tag == WirelessTag(RGBProfile)
            IN ReportTag(wire[last].report, Len(tag)) = tag

\* C25 witness: "rain" has been applied after another effect, pings have gone
\* out, and the transport holds two frames of two chunks each
C25_Witness ==
  /\ variant = "wireless" /\ wcPc = "done" /\ calls = 2
  /\ RGBProfile = "rain"
  /\ Cardinality(Pings) = 2
  /\ Len(wire) = 6

(***************************************************************************)
(* SpecTag: the wireless package variable dataTypeSetColor under two       *)
(* concurrent callers of UpdateRgbProfile and Stop.                        *)
(***************************************************************************)
\* calls of UpdateRgbProfile made
MaxTagCalls == 3

\* the value Stop assigns to dataTypeSetColor
StopTag == <<34, 0, 3, 4>>

\* the other groups of variables
baseVars == <<codecVars, devVars, ioVars, apiVars, phaseVars, sessVars>>
notTagVars == <<baseVars, instVars, kbVars, fxVars>>

\* the wireless device after Init: setDeviceColor has written the frame of the
\* profile's effect
InitTag ==
  /\ CodecIdle /\ DevIdle /\ IoIdle /\ ApiIdle /\ PhaseIdle /\ SessIdle
  /\ InstIdle /\ KbIdle /\ FxIdle
  /\ \E p \in WirelessEffects :
       tagShared = [dataTypeSetColor |-> WirelessTag(p), RGBProfile |-> p,
                    calls |-> 0, stops |-> 0]
  /\ tagCallers = [c \in TagCallers |-> TagIdleCaller]

\* UpdateRgbProfile(p) for a key of d.RGBModes: d.DeviceProfile.RGBProfile = p,
\* saveDeviceProfile; d.activeRgb is nil on this variant
TagUpdateRgbProfile(c, p) ==
  /\ tagCallers[c].pc = "idle"
  /\ tagShared.calls < MaxTagCalls
  /\ tagShared.stops = 0
  /\ tagShared' = [tagShared EXCEPT !.RGBProfile = p, !.calls = @ + 1]
  /\ tagCallers' = [tagCallers EXCEPT ![c] =
                      [pc |-> "switch", call |-> "UpdateRgbProfile",
                       selected |-> <<>>, written |-> <<>>]]
  /\ UNCHANGED notTagVars

\* setDeviceColor: switch d.DeviceProfile.RGBProfile; the case makes buf and
\* assigns dataTypeSetColor
TagSwitch(c) ==
  /\ tagCallers[c].pc = "switch"
  /\ tagShared' = [tagShared EXCEPT !.dataTypeSetColor = WirelessTag(tagShared.RGBProfile)]
  /\ tagCallers' = [tagCallers EXCEPT ![c].pc = "write",
                                      ![c].selected = WirelessTag(tagShared.RGBProfile)]
  /\ UNCHANGED notTagVars

\* Stop: the two ticker goroutines receive the sends on authRefreshChan and
\* keepAliveChan (a second Stop would block on the first send)
TagStop(c) ==
  /\ tagCallers[c].pc = "idle"
  /\ tagShared.stops = 0
  /\ tagShared' = [tagShared EXCEPT !.stops = 1]
  /\ tagCallers' = [tagCallers EXCEPT ![c] =
                      [pc |-> "stop_assign", call |-> "Stop",
                       selected |-> <<>>, written |-> <<>>]]
  /\ UNCHANGED notTagVars

\* Stop: buf, dataTypeSetColor = []byte{0x22, 0x00, 0x03, 0x04}
TagStopAssign(c) ==
  /\ tagCallers[c].pc = "stop_assign"
  /\ tagShared' = [tagShared EXCEPT !.dataTypeSetColor = StopTag]
  /\ tagCallers' = [tagCallers EXCEPT ![c].pc = "write", ![c].selected = StopTag]
  /\ UNCHANGED notTagVars

\* the tag writeColor copies into the frame's buffer after the header
FrameTag(own, shared) == shared

\* d.writeColor(buf): buffer is made from dataTypeSetColor and buf, and is
\* transferred; the call returns
TagWriteColor(c) ==
  /\ tagCallers[c].pc = "write"
  /\ tagCallers' = [tagCallers EXCEPT
                      ![c].pc = "idle",
                      ![c].written = FrameTag(tagCallers[c].selected,
                                              tagShared.dataTypeSetColor)]
  /\ UNCHANGED tagShared
  /\ UNCHANGED notTagVars

NextTag ==
  \/ \E c \in TagCallers, p \in WirelessEffects : TagUpdateRgbProfile(c, p)
  \/ \E c \in TagCallers : TagSwitch(c)
  \/ \E c \in TagCallers : TagStop(c)
  \/ \E c \in TagCallers : TagStopAssign(c)
  \/ \E c \in TagCallers : TagWriteColor(c)

SpecTag == InitTag /\ [][NextTag]_vars

\* C31 (as claimed): the frame a setDeviceColor or Stop call has written
\* carries the data-type tag that this call assigned for its effect.
C31_FrameCarriesSelectedTag ==
  \A c \in TagCallers :
    tagCallers[c].written # <<>> => tagCallers[c].written = tagCallers[c].selected

(***************************************************************************)
(* SpecInstances: two Device instances of one package in one process; the  *)
(* tickers and the cancel channels are package variables.                  *)
(***************************************************************************)
notInstVars == <<baseVars, tagVars, kbVars, fxVars>>

\* the instance's goroutine of kind kd
InstTask(i, kd) == instTasks[i][kd]

\* the label of Stop at which it sends on the channel of kind kd
StopSendLabel(kd) == IF kd = "tm" THEN "send_auth" ELSE "send_ka"

\* the label of Stop after its send of kind kd has been received
StopAfterSend(kd) == IF kd = "tm" THEN "send_ka" ELSE "stopped"

\* Init of instance i: setAutoRefresh and setKeepAlive assign new tickers and
\* new channels to the package variables and start the two goroutines
InstInit(i) ==
  /\ instStop[i].pc = "none"
  /\ instShared' = [instShared EXCEPT !.timer = [kd \in TaskKinds |-> i],
                                      !.chan = [kd \in TaskKinds |-> i]]
  /\ instTasks' = [instTasks EXCEPT ![i] =
                     [kd \in TaskKinds |-> [pc |-> "for", timer |-> 0, chan |-> 0]]]
  /\ instStop' = [instStop EXCEPT ![i].pc = "idle"]
  /\ UNCHANGED notInstVars

\* the ticker and the channel a select waits on: the package variables as
\* they are when the select statement is entered
SelectOperands(kd) == [timer |-> instShared.timer[kd], chan |-> instShared.chan[kd]]

\* for { select { : the operands timer.C / timerKeepAlive.C and authRefreshChan /
\* keepAliveChan are evaluated and the goroutine waits
InstSelect(i, kd) ==
  /\ InstTask(i, kd).pc = "for"
  /\ instTasks' = [instTasks EXCEPT ![i][kd] =
                     [pc |-> "select", timer |-> SelectOperands(kd).timer,
                      chan |-> SelectOperands(kd).chan]]
  /\ UNCHANGED <<instShared, instStop>>
  /\ UNCHANGED notInstVars

\* case <-timer.C: d.setTemperatures() / case <-timerKeepAlive.C: d.keepAlive()
InstTick(i, kd) ==
  /\ InstTask(i, kd).pc = "select"
  /\ <<kd, InstTask(i, kd).timer>> \notin instShared.stopped
  /\ instTasks' = [instTasks EXCEPT ![i][kd].pc = "for"]
  /\ UNCHANGED <<instShared, instStop>>
  /\ UNCHANGED notInstVars

\* Stop of instance i (d.activeRgb is nil): timer.Stop(), then the send on
\* authRefreshChan is pending
InstStop(i) ==
  /\ instStop[i].pc = "idle"
  /\ instShared' = [instShared EXCEPT !.stopped = @ \cup {<<"tm", instShared.timer["tm"]>>}]
  /\ instStop' = [instStop EXCEPT ![i] = [pc |-> "send_auth",
                                           chan |-> instShared.chan["tm"]]]
  /\ UNCHANGED instTasks
  /\ UNCHANGED notInstVars

\* authRefreshChan <- true / keepAliveChan <- true of instance i's Stop is
\* received by goroutine kd of instance j, waiting on the channel the package
\* variable holds: case <-authRefreshChan: timer.Stop(); return. Stop goes on:
\* timerKeepAlive.Stop() before the second send, setHardwareMode and Close
\* after it
InstReceive(i, j, kd) ==
  /\ instStop[i].pc = StopSendLabel(kd)
  /\ InstTask(j, kd).pc = "select"
  /\ InstTask(j, kd).chan = instStop[i].chan
  /\ instTasks' = [instTasks EXCEPT ![j][kd].pc = "exited"]
  /\ instShared' = [instShared EXCEPT !.stopped =
                      @ \cup {<<kd, instShared.timer[kd]>>}
                        \cup (IF kd = "tm" THEN {<<"ka", instShared.timer["ka"]>>} ELSE {})]
  /\ instStop' = [instStop EXCEPT ![i] = [pc |-> StopAfterSend(kd),
                                           chan |-> IF kd = "tm" THEN instShared.chan["ka"]
                                                    ELSE 0]]
  /\ UNCHANGED notInstVars

\* both instances are created one after the other before anything else runs
InitInstances ==
  /\ CodecIdle /\ DevIdle /\ IoIdle /\ ApiIdle /\ PhaseIdle /\ SessIdle
  /\ TagIdle /\ InstIdle /\ KbIdle /\ FxIdle

NextInstances ==
  \/ \E i \in Instances : InstInit(i)
  \/ \E i \in Instances, kd \in TaskKinds : InstSelect(i, kd)
  \/ \E i \in Instances, kd \in TaskKinds : InstTick(i, kd)
  \/ \E i \in Instances : InstStop(i)
  \/ \E i, j \in Instances, kd \in TaskKinds : InstReceive(i, j, kd)

SpecInstances == InitInstances /\ [][NextInstances]_vars

\* C32 (as claimed): once Stop has returned on one instance, that instance's
\* keep-alive and telemetry goroutines have ended and those of an instance
\* that is initialised and has not been stopped are still running.
C32_StopEndsOwnTasksOnly ==
  \A i \in Instances :
    instStop[i].pc = "stopped" =>
      /\ \A kd \in TaskKinds : InstTask(i, kd).pc = "exited"
      /\ \A j \in Instances \ {i} :
           instStop[j].pc = "idle" => \A kd \in TaskKinds : InstTask(j, kd).pc # "exited"

(***************************************************************************)
(* SpecDialProfile: the wired dial listener in brightness binding while    *)
(* ChangeDeviceProfile replaces the active profile.                        *)
(***************************************************************************)
\* calls of ChangeDeviceProfile made
MaxSwitches == 2

\* values of BrightnessLevel in the user profiles (whole steps)
ProfileLevels == {0, 500, 1000}

\* the listener has started in brightness binding on a profile of
\* d.UserProfiles whose level is not 0, so that its local brightness is the
\* profile's level
InitDialProfile ==
  /\ InitDialSpec
  /\ variant = "wired"
  /\ ControlDial = 2
  /\ BrightnessLevel \in ProfileLevels \ {0}

\* ChangeDeviceProfile(profileName) for a user profile whose ControlDial is 2
\* and whose BrightnessLevel is l: d.DeviceProfile = newProfile (d.activeRgb is
\* nil, the effect is "keyboard"); the listener's local brightness is not
\* touched
DialChangeDeviceProfile(l) ==
  /\ ~crashed
  /\ calls < MaxSwitches
  /\ calls' = calls + 1
  /\ BrightnessLevel' = l
  /\ UNCHANGED <<crashed, mutex, pc, k, xph, activeRgb, sendTo, RGBProfile, call,
                 arg, nextLoop, buffLen, CpuTemp, ControlDial, brightness, pv,
                 dialEvents>>
  /\ UNCHANGED <<codecVars, ioVars, apiVars, phaseVars, sessVars, restVars>>

NextDialProfile ==
  \/ \E ev \in DialSpecReports : DialHandle(ev)
  \/ \E l \in ProfileLevels : DialChangeDeviceProfile(l)

SpecDialProfile == InitDialProfile /\ [][NextDialProfile]_vars

\* one step of 100 from level b, kept within [0, 1000]
OneStep(ev, b) ==
  IF ev = "inc" THEN (IF b + 100 > 1000 THEN 1000 ELSE b + 100)
  ELSE (IF b - 100 < 0 THEN 0 ELSE b - 100)

\* C33 (as claimed): every rotation handled in brightness binding has stored
\* and sent the level one step of 100 (clamped) away from the level the active
\* profile held before it.
C33_RotateStepsFromStoredLevel ==
  \A i \in 1..Len(wire) :
    wire[i].ev \in {"inc", "dec"} => WireLevel(i) = OneStep(wire[i].ev, wire[i].was)

(***************************************************************************)
(* SpecKeyboards: SaveKeyboardProfile, UpdateKeyboardProfile and           *)
(* DeleteKeyboardProfile, one call after the other.                        *)
(***************************************************************************)
\* calls made
MaxKbCalls == 5

\* the profile names the calls are made with
KbNames == {"default", "a", "b", "c"}

notKbVars == <<baseVars, tagVars, instVars, fxVars>>

\* slices.Contains(list, name)
Contains(list, name) == \E n \in 1..Len(list) : list[n] = name

\* common.IndexOfString(list, name): the first index (from 0), or -1
IndexOfString(list, name) ==
  IF Contains(list, name)
  THEN (CHOOSE n \in 1..Len(list) :
          list[n] = name /\ \A m \in 1..(n - 1) : list[m] # name) - 1
  ELSE -1

\* append(list[:index], list[index+1:]...)
RemoveAt(list, index) ==
  SubSeq(list, 1, index) \o SubSeq(list, index + 2, Len(list))

\* if profileName == "default" { return 3 }
DeletesAnyName(name) == FALSE
IsDefault(name) == name = "default"

\* saveDeviceProfile: the profile is written as JSON and d.DeviceProfile is
\* the active profile as loadDeviceProfiles decodes it again; Profile, the
\* list Profiles (in order) and the keys of Keyboards come back as written
\* (when the file cannot be written the profile in memory stays)
saveDeviceProfile(dp) ==
  [Profile |-> dp.Profile,
   Profiles |-> [n \in 1..Len(dp.Profiles) |-> dp.Profiles[n]],
   Keyboards |-> {key \in KbNames : key \in dp.Keyboards}]

\* the device after Init's first saveDeviceProfile
InitKeyboards ==
  /\ CodecIdle /\ DevIdle /\ IoIdle /\ ApiIdle /\ PhaseIdle /\ SessIdle
  /\ TagIdle /\ InstIdle /\ FxIdle
  /\ kbDev = [Profile |-> "default", Profiles |-> <<"default">>,
              Keyboards |-> {"default"}]
  /\ kbLast = [calls |-> 0, call |-> "none", ret |-> -1]

\* SaveKeyboardProfile(profileName, new)
SaveKeyboardProfile(name, new) ==
  /\ kbLast.calls < MaxKbCalls
  /\ IF new /\ (Contains(kbDev.Profiles, name) \/ name \in kbDev.Keyboards)
     THEN /\ kbLast' = [calls |-> kbLast.calls + 1, call |-> "SaveKeyboardProfile", ret |-> 2]
          /\ UNCHANGED kbDev
     ELSE /\ kbLast' = [calls |-> kbLast.calls + 1, call |-> "SaveKeyboardProfile", ret |-> 1]
          /\ kbDev' = saveDeviceProfile(
                        IF new
                        THEN [kbDev EXCEPT !.Profiles = Append(@, name),
                                           !.Keyboards = @ \cup {name}]
                        ELSE kbDev)
  /\ UNCHANGED notKbVars

\* UpdateKeyboardProfile(profileName); the animation restart that follows
\* the save does not touch the profile
UpdateKeyboardProfile(name) ==
  /\ kbLast.calls < MaxKbCalls
  /\ IF ~Contains(kbDev.Profiles, name) \/ name \notin kbDev.Keyboards
     THEN /\ kbLast' = [calls |-> kbLast.calls + 1, call |-> "UpdateKeyboardProfile", ret |-> 2]
          /\ UNCHANGED kbDev
     ELSE /\ kbLast' = [calls |-> kbLast.calls + 1, call |-> "UpdateKeyboardProfile", ret |-> 1]
          /\ kbDev' = saveDeviceProfile([kbDev EXCEPT !.Profile = name])
  /\ UNCHANGED notKbVars

\* DeleteKeyboardProfile(profileName); the animation restart that follows
\* the save does not touch the profile
DeleteKeyboardProfile(name) ==
  /\ kbLast.calls < MaxKbCalls
  /\ IF IsDefault(name)
     THEN /\ kbLast' = [calls |-> kbLast.calls + 1, call |-> "DeleteKeyboardProfile", ret |-> 3]
          /\ UNCHANGED kbDev
     ELSE IF ~Contains(kbDev.Profiles, name) \/ name \notin kbDev.Keyboards
     THEN /\ kbLast' = [calls |-> kbLast.calls + 1, call |-> "DeleteKeyboardProfile", ret |-> 2]
          /\ UNCHANGED kbDev
     ELSE IF IndexOfString(kbDev.Profiles, name) < 0
     THEN /\ kbLast' = [calls |-> kbLast.calls + 1, call |-> "DeleteKeyboardProfile", ret |-> 0]
          /\ UNCHANGED kbDev
     ELSE /\ kbLast' = [calls |-> kbLast.calls + 1, call |-> "DeleteKeyboardProfile", ret |-> 1]
          /\ kbDev' = saveDeviceProfile(
                        [Profile |-> "default",
                         Profiles |-> RemoveAt(kbDev.Profiles,
                                               IndexOfString(kbDev.Profiles, name)),
                         Keyboards |-> kbDev.Keyboards \ {name}])
  /\ UNCHANGED notKbVars

NextKeyboards ==
  \/ \E name \in KbNames, new \in BOOLEAN : SaveKeyboardProfile(name, new)
  \/ \E name \in KbNames : UpdateKeyboardProfile(name)
  \/ \E name \in KbNames : DeleteKeyboardProfile(name)

SpecKeyboards == InitKeyboards /\ [][NextKeyboards]_vars

\* the names in the list Profiles
ProfileNames == {kbDev.Profiles[n] : n \in 1..Len(kbDev.Profiles)}

\* C36: the list Profiles and the map Keyboards name the same profiles, each
\* once in the list; "default" is one of them; Profile names one of them.
C36_ProfilesAndKeyboardsAgree ==
  /\ ProfileNames = kbDev.Keyboards
  /\ Len(kbDev.Profiles) = Cardinality(kbDev.Keyboards)
  /\ "default" \in ProfileNames
  /\ kbDev.Profile \in ProfileNames

\* C36 witness: after two saves, a switch and the deletion of the profile
\* switched to, one saved profile is left and "default" is active again
C36_Witness ==
  /\ kbLast = [calls |-> 4, call |-> "DeleteKeyboardProfile", ret |-> 1]
  /\ kbDev = [Profile |-> "default", Profiles |-> <<"default", "b">>,
              Keyboards |-> {"default", "b"}]

(***************************************************************************)
(* SpecEffect: the standalone effect modules watercolor and colorshift:    *)
(* one Init loop and one caller of Stop on the package's exit channel.     *)
(***************************************************************************)
\* comm.WriteColor calls made by one Init loop
MaxFxWrites == 5

\* smoothness of colorshift.Init
FxSmoothness == 2

FxModules == {"watercolor", "colorshift"}

\* the Init loops of one package, which share its exit channel
FxLoops == {1, 2}

notFxVars == <<baseVars, tagVars, instVars, kbVars>>

\* the positions at which Init waits in a select that has case <-exit
FxSelects(mod) ==
  IF mod = "watercolor" THEN {"top"} ELSE {"top", "initial", "pause", "reverse"}

\* case <-exit: return
ReceivedGoesOn == "top"
ReceivedNext == "exited"

\* a package none of whose Init loops has been started and whose Stop has no
\* caller
InitEffect ==
  /\ CodecIdle /\ DevIdle /\ IoIdle /\ ApiIdle /\ PhaseIdle /\ SessIdle
  /\ TagIdle /\ InstIdle /\ KbIdle
  /\ \E m \in FxModules :
       fxInit = [l \in FxLoops |-> [mod |-> m, pc |-> "none", i |-> 0]]
  /\ fxStop = [pc |-> "idle", by |-> 0, writes |-> 0]
  /\ fxWrites = [l \in FxLoops |-> 0]

\* Init(...) is called: startTime / the random colours, then the for loop
FxInitCall(l) ==
  /\ fxInit[l].pc = "none"
  /\ fxInit' = [fxInit EXCEPT ![l].pc = "top"]
  /\ UNCHANGED <<fxStop, fxWrites>>
  /\ UNCHANGED notFxVars

\* Stop(): exit <- true, the send is pending
FxStopCall ==
  /\ fxStop.pc = "idle"
  /\ fxStop' = [fxStop EXCEPT !.pc = "send"]
  /\ UNCHANGED <<fxInit, fxWrites>>
  /\ UNCHANGED notFxVars

\* case <-exit: return, against the pending send; Stop returns
FxReceive(l) ==
  /\ fxStop.pc = "send"
  /\ fxInit[l].pc \in FxSelects(fxInit[l].mod)
  /\ fxInit' = [fxInit EXCEPT ![l].pc = ReceivedNext]
  /\ fxStop' = [pc |-> "returned", by |-> l, writes |-> fxWrites[l]]
  /\ UNCHANGED fxWrites
  /\ UNCHANGED notFxVars

\* default: of the select at the top of the loop, taken when no send is
\* pending: watercolor goes on to its frame, colorshift to its first loop
FxDefault(l) ==
  /\ fxInit[l].pc = "top"
  /\ fxStop.pc # "send"
  /\ fxInit' = IF fxInit[l].mod = "watercolor"
               THEN [fxInit EXCEPT ![l].pc = "body"]
               ELSE [fxInit EXCEPT ![l].pc = "initial", ![l].i = 0]
  /\ UNCHANGED <<fxStop, fxWrites>>
  /\ UNCHANGED notFxVars

\* watercolor: generateColors, common.SetColor, comm.WriteColor, time.Sleep
FxWatercolorWrite(l) ==
  /\ fxInit[l].mod = "watercolor" /\ fxInit[l].pc = "body"
  /\ fxWrites[l] < MaxFxWrites
  /\ fxWrites' = [fxWrites EXCEPT ![l] = @ + 1]
  /\ fxInit' = [fxInit EXCEPT ![l].pc = "top"]
  /\ UNCHANGED fxStop
  /\ UNCHANGED notFxVars

\* colorshift: case <-time.After(40 * time.Millisecond): comm.WriteColor, in
\* the loop for i := 0; i <= smoothness; i++ (either direction); the case can
\* be chosen while a send is pending
FxColorshiftWrite(l) ==
  /\ fxInit[l].mod = "colorshift" /\ fxInit[l].pc \in {"initial", "reverse"}
  /\ fxWrites[l] < MaxFxWrites
  /\ fxWrites' = [fxWrites EXCEPT ![l] = @ + 1]
  /\ fxInit' = IF fxInit[l].i + 1 <= FxSmoothness
               THEN [fxInit EXCEPT ![l].i = @ + 1]
               ELSE [fxInit EXCEPT ![l].i = 0,
                                   ![l].pc = IF fxInit[l].pc = "initial"
                                             THEN "pause" ELSE "top"]
  /\ UNCHANGED fxStop
  /\ UNCHANGED notFxVars

\* colorshift: case <-time.After(rgbLoopDuration): between the two loops
FxColorshiftPause(l) ==
  /\ fxInit[l].mod = "colorshift" /\ fxInit[l].pc = "pause"
  /\ fxInit' = [fxInit EXCEPT ![l].pc = "reverse", ![l].i = 0]
  /\ UNCHANGED <<fxStop, fxWrites>>
  /\ UNCHANGED notFxVars

NextEffect ==
  \/ \E l \in FxLoops : FxInitCall(l)
  \/ FxStopCall
  \/ \E l \in FxLoops : FxReceive(l)
  \/ \E l \in FxLoops : FxDefault(l)
  \/ \E l \in FxLoops : FxWatercolorWrite(l)
  \/ \E l \in FxLoops : FxColorshiftWrite(l)
  \/ \E l \in FxLoops : FxColorshiftPause(l)

SpecEffect == InitEffect /\ [][NextEffect]_vars

\* C37: once Stop has returned, an Init loop has received the exit signal and
\* has returned, and that loop has made no WriteColor call since Stop
\* returned.
C37_StopEndsInit ==
  fxStop.pc = "returned" =>
    /\ fxStop.by \in FxLoops
    /\ fxInit[fxStop.by].pc = "exited"
    /\ fxWrites[fxStop.by] = fxStop.writes

\* C37 witness: Stop has returned from a colorshift Init that had written
\* the frames of its first loop and one of its reverse loop
C37_Witness ==
  /\ fxInit[1] = [mod |-> "colorshift", pc |-> "exited", i |-> 1]
  /\ fxStop = [pc |-> "returned", by |-> 1, writes |-> 4]
  /\ fxWrites[1] = 4
====
